---- MODULE Spec2Model ----
(***************************************************************************)
(* A model of the seppl pipeline engine:                                   *)
(*   - FilterPipelineIterator.__next__ (seppl/io/_filter.py), one action   *)
(*     per block of code between two reads of session.stopped;             *)
(*   - BatchFilter.process / StreamFilter.process_stream, has_output and   *)
(*     output, with the abstract _do_process(_stream) as a nondeterministic*)
(*     choice of how many outputs the filter produces for an input;        *)
(*   - execute(), _stream_execution and _batch_execution                   *)
(*     (seppl/io/_execution.py), one action per call into a stage and per  *)
(*     read of session.stopped, with filter_data summarised by what a      *)
(*     chain of filters may yield.                                         *)
(* Items are paths: the input item is <<1>>, and the j-th                  *)
(* output a filter produces for item x is Append(x, j), so every value     *)
(* names the filter calls it came from.  Python's 0-based filter indices   *)
(* are 1-based here.                                                       *)
(***************************************************************************)
EXTENDS Integers, Sequences, FiniteSets, TLC

\* ------------------------------------------------------------------ bounds
MaxFilters == 3     \* longest filter chain
MaxOut == 2         \* most outputs _do_process_stream buffers for one input
MaxStages == 2      \* most filters execute() is given
MaxItems == 2       \* most items the reader hands out
MaxCount == 1       \* largest session.count execute() starts from
MaxInterval == 2    \* largest session.options.update_interval
MaxArgs == 3        \* most tokens split_args() is given
MaxGroups == 2      \* most plugins args_to_objects() is given
MaxEntries == 2     \* most entry points declared for a group
MaxChanges == 1     \* most assignments to the registry's module lists
MaxRuns == 2        \* most runs of _register for a group between them
MaxListers == 2     \* most default class listers
MaxPlugins == 3     \* most plugins check_compatibility() is given
MaxInlined == 3     \* most filters in and around a MultiFilter
MaxFan == 2         \* most values one of these filters makes of an item
MaxSplits == 3      \* most splits of a Splitter
MaxCalls == 10      \* most calls of next() without a split group
MaxKeyed == 4       \* most calls of next() with a split group
MaxResets == 1      \* most calls of reset()
MaxListed == 2      \* most plugins of an entry point group

\* --------------------------------------------------------------- constants
None == <<0>>       \* Python's None: no path has a 0 in it

VARIABLES
    \* FilterPipelineIterator fields
    data, filters, session, finished, pending_filters, first,
    \* StreamFilter._stream_output of every filter of the chain
    stream_output,
    \* Session.stopped
    stopped,
    \* position inside __next__ and its locals
    pc, i, output,
    \* what the last call of __next__ gave its caller
    result, value,
    \* history: the reference depth-first traversal, whether the iterator has
    \* followed it, the last filter call, how many values were yielded (0, 1,
    \* 2 = more than one), the stop flag and the last filter call as they
    \* were when the pull began
    dfs, conform, last_call, nyielded, stop_at_entry, call_at_entry,
    \* execute(): its arguments, its position and the stage it is at, the
    \* calls of initialize() and finalize() in order, the stage whose
    \* initialize() raised, batch_mode, whether the warning was logged, and
    \* whether an exception was caught or has left execute()
    args, epc, stage, init_log, init_failed, finalize_log, batch_mode, warned,
    raised,
    \* session.count, the number of items read, the item read, the number of
    \* values the filters have yielded for it and the last of them, data and
    \* filtered_data of _batch_execution, the position of its write loop,
    \* and the calls of the writer in order
    count, nread, item, npull, filtered, data_list, filtered_data, widx, writes,
    \* the values the filter chain has yielded to the execution, and the
    \* progress messages logged, both in order
    yields, logged,
    \* split_args(): its arguments args (tokens), handlers and partial, its
    \* position, the number of tokens the loop has taken, the handler the
    \* last of them resolved to, and its locals result (groups), last_handler
    \* and last_args
    tokens, handlers, partial, spc, ntaken, handler, groups, last_handler,
    last_args,
    \* args_to_objects(): its arguments args (arg_groups),
    \* allow_global_options and allow_unknown_args, the plugin objects that
    \* exist, the prototypes as they were when it was called, its position,
    \* the number of keys the loop has taken, its locals result (objects)
    \* and i
    arg_groups, allow_global_options, allow_unknown_args, heap, heap0, opc,
    okey, objects, oi,
    \* Registry: its attributes mode, enforce_uniqueness, _default_modules,
    \* _env_modules (whether a variable is named), _excluded_modules and
    \* _custom_modules, the entry points declared for each group, the value
    \* of the environment variable, its dicts _plugins (stored),
    \* _all_plugins and _all_aliases, what the last call of plugins() did,
    \* its position and the candidates it has still to register,
    \* the number of times _register has run for each group since the last
    \* setter, and the number of setter calls
    mode, enforce_uniqueness, default_modules, env_modules, excluded_modules,
    custom_modules, entry_points, environ, stored, all_plugins, all_aliases,
    rcall, rpc, todo, nregister, nchanges,
    \* ClassListerRegistry: its attributes _default_class_listers and
    \* _excluded_class_listers, the value of the environment variable for
    \* the excluded class listers, the class listers declared as entry
    \* points, _classes for the superclass asked for, and what the last
    \* call of plugins() did
    default_class_listers, excluded_class_listers, environ_excluded,
    lister_entry_points, classes, ccall,
    \* check_compatibility(): its argument plugins (pipeline), its position
    \* and i, and the exception it raised
    pipeline, cpc, ci, cerror,
    \* A MultiFilter in a pipeline: the filters, the iterators (of the
    \* pipeline of the filters themselves, of the pipeline with the
    \* MultiFilter and of the MultiFilter), _stream_output of every filter
    \* and of the MultiFilter, whether the MultiFilter has an iterator,
    \* where in the pipeline's round its has_output was called, what the
    \* two pipelines have yielded, and which of them is pulled from
    kinds, its, bufs, miterator, mpc, pulled, phase,
    \* Splitter: split_ratios, split_names, whether split_group is set,
    \* _schedule, _counter, _stats, _groups, whether initialize() was called
    \* and raised, the calls of next() since the last reset() and the
    \* number of calls of reset()
    split_ratios, split_names, split_group, schedule, counter, stats,
    split_groups, splitter, calls, nresets,
    \* generate_entry_points(): its argument entry_points (plugin_lists)
    \* as it is and as it was given, its locals keys and result, and its
    \* position
    plugin_lists, given_lists, gen_keys, gen_result, gpc

itvars == <<data, filters, session, finished, pending_filters, first,
            stream_output, pc, i, output, result, value>>
hvars == <<dfs, conform, last_call, nyielded, stop_at_entry, call_at_entry>>
procvars == <<count, nread, item, npull, filtered, data_list, filtered_data,
              widx, writes, yields, logged>>
exvars == <<args, epc, stage, init_log, init_failed, finalize_log, batch_mode,
            warned, raised, procvars>>
argvars == <<tokens, handlers, partial, spc, ntaken, handler, groups,
             last_handler, last_args>>
objvars == <<arg_groups, allow_global_options, allow_unknown_args, heap,
             heap0, opc, okey, objects, oi>>
regvars == <<mode, enforce_uniqueness, default_modules, env_modules,
             excluded_modules, custom_modules, entry_points, environ, stored,
             all_plugins, all_aliases, rcall, rpc, todo, nregister,
             nchanges>>
clvars == <<default_class_listers, excluded_class_listers, environ_excluded,
            lister_entry_points, classes, ccall>>
checkvars == <<pipeline, cpc, ci, cerror>>
multivars == <<kinds, its, bufs, miterator, mpc, pulled, phase>>
splvars == <<split_ratios, split_names, split_group, schedule, counter, stats,
             split_groups, splitter, calls, nresets>>
epvars == <<plugin_lists, given_lists, gen_keys, gen_result, gpc>>
morevars == <<multivars, splvars, epvars>>
libvars == <<objvars, regvars, clvars, checkvars, morevars>>
corevars == <<itvars, stopped, hvars, exvars, argvars>>
NotObjects == <<corevars, regvars, clvars, checkvars, morevars>>
NotRegistry == <<corevars, objvars, clvars, checkvars, morevars>>
NotClassListers == <<corevars, objvars, regvars, checkvars, morevars>>
NotCheck == <<corevars, objvars, regvars, clvars, morevars>>
NotMulti == <<corevars, objvars, regvars, clvars, checkvars, splvars, epvars>>
NotSplitter == <<corevars, objvars, regvars, clvars, checkvars, multivars,
                 epvars>>
NotEntryPoints == <<corevars, objvars, regvars, clvars, checkvars, multivars,
                    splvars>>
vars == <<corevars, libvars>>

\* ------------------------------------------------------------ the filters
\* A filter of the chain: a StreamFilter or a plain BatchFilter, with its
\* skip option.
FilterKinds == [stream : BOOLEAN, skip : BOOLEAN]

Chains == UNION {[1..n -> FilterKinds] : n \in 0..MaxFilters}

\* The input item the iterator is made for.
Input == <<1>>

IsStream(k) == filters[k].stream

\* How many outputs the filter's own _do_process / _do_process_stream may
\* produce for one input: a direct filter returns a value or None, a
\* streaming filter appends any number of values to its buffer.
Counts(k) ==
    IF filters[k].skip THEN {1}
    ELSE IF IsStream(k) THEN 0..MaxOut ELSE 0..1

\* The outputs of filter k for input x when its code produces c values.
\* A skipped filter hands on its input unchanged.
Outputs(k, x, c) ==
    IF filters[k].skip THEN <<x>> ELSE [j \in 1..c |-> Append(x, j)]

has_output(k) == Len(stream_output[k]) > 0

\* (self.session is not None) and self.session.stopped
SessionStopped == session /\ stopped

\* ---------------------------------------------------------------- history
Leaf == Len(filters) + 1

\* The reference traversal after filter k was called with x and gave outs:
\* the call must be the next one of the traversal, and its outputs are
\* visited, left to right, before anything that was waiting.
DfsCall(k, x, outs) ==
    IF dfs # <<>> /\ Head(dfs) = [lvl |-> k, item |-> x]
    THEN [d |-> [j \in 1..Len(outs) |-> [lvl |-> k + 1, item |-> outs[j]]]
                    \o Tail(dfs),
          ok |-> conform]
    ELSE [d |-> dfs, ok |-> FALSE]

\* The reference traversal after v was yielded: v must be the next leaf.
DfsYield(d, ok, v) ==
    IF d # <<>> /\ Head(d) = [lvl |-> Leaf, item |-> v]
    THEN [d |-> Tail(d), ok |-> ok]
    ELSE [d |-> d, ok |-> FALSE]

Bump(n) == IF n < 2 THEN n + 1 ELSE 2

\* ------------------------------------------------- ends of a call of __next__
\* return v
Return(v, d, ok) ==
    /\ pc' = "idle" /\ i' = 0 /\ output' = None
    /\ result' = "value" /\ value' = v
    /\ dfs' = DfsYield(d, ok, v).d /\ conform' = DfsYield(d, ok, v).ok
    /\ nyielded' = Bump(nyielded)

\* raise StopIteration()
Stop ==
    /\ pc' = "idle" /\ i' = 0 /\ output' = None
    /\ result' = "StopIteration" /\ value' = None
    /\ UNCHANGED <<dfs, conform, nyielded>>

\* ------------------------------------------------------------- the iterator
\* FilterPipelineIterator.__init__
InitIterator ==
    /\ data = Input
    /\ filters \in Chains
    /\ session \in BOOLEAN
    /\ finished = FALSE
    /\ pending_filters = <<>>
    /\ first = TRUE
    /\ stream_output = [k \in 1..Len(filters) |-> <<>>]
    /\ pc = "idle" /\ i = 0 /\ output = None
    /\ result = "none" /\ value = None

\* __next__, from its call to the head of the while loop.
Next_Entry ==
    /\ pc = "idle"
    /\ stop_at_entry' = SessionStopped
    /\ call_at_entry' = last_call
    /\ UNCHANGED <<data, filters, session, pending_filters, stream_output,
                   stopped, last_call, exvars, argvars, libvars>>
    /\ IF finished
       THEN Stop /\ UNCHANGED <<finished, first>>
       ELSE IF first /\ Len(filters) = 0
            THEN first' = FALSE /\ finished' = TRUE /\ Return(data, dfs, conform)
            ELSE /\ pc' = "while"
                 /\ UNCHANGED <<finished, first, i, output, result, value,
                                dfs, conform, nyielded>>

StartIndex_Earliest ==
    IF Len(pending_filters) > 0 THEN pending_filters[1] ELSE 1

\* The filter a pass starts with: the pending filter appended last, or the
\* head of the chain.
StartIndex ==
    IF Len(pending_filters) > 0
    THEN pending_filters[Len(pending_filters)]
    ELSE 1

FirstOutput_Always == data

\* What the first filter of a pass is given: the input on the first pass,
\* nothing afterwards.
FirstOutput == IF first THEN data ELSE None

\* The head of the while loop: the loop condition, the stop check, and the
\* set-up of one pass over the filters.
Next_While ==
    /\ pc = "while"
    /\ UNCHANGED <<data, filters, session, finished, pending_filters,
                   stream_output, stopped, last_call, stop_at_entry,
                   call_at_entry, exvars, argvars, libvars>>
    /\ IF finished \/ SessionStopped
       THEN Stop /\ UNCHANGED first
       ELSE /\ pc' = "for"
            /\ i' = StartIndex
            /\ output' = FirstOutput
            /\ first' = FALSE
            /\ UNCHANGED <<result, value, dfs, conform, nyielded>>

\* The pass is over (break, or the range is used up): finished is set from
\* the pending filters and control is back at the head of the while loop.
PassFinished_Abort(pending) == TRUE

\* self.finished = len(self.pending_filters) == 0
PassFinished(pending) == Len(pending) = 0

EndPass(pending, buffers, call, d, ok) ==
    /\ finished' = PassFinished(pending)
    /\ pending_filters' = pending
    /\ stream_output' = buffers
    /\ last_call' = call /\ dfs' = d /\ conform' = ok
    /\ pc' = "while" /\ i' = 0 /\ output' = None
    /\ UNCHANGED <<result, value, nyielded>>

\* The pass goes on with the next filter, which gets out.
Continue(pending, buffers, call, d, ok, out) ==
    /\ pending_filters' = pending
    /\ stream_output' = buffers
    /\ last_call' = call /\ dfs' = d /\ conform' = ok
    /\ pc' = "for" /\ i' = i + 1 /\ output' = out
    /\ UNCHANGED <<finished, result, value, nyielded>>

\* return out from inside the for loop
Yield(pending, buffers, call, d, ok, out) ==
    /\ pending_filters' = pending
    /\ stream_output' = buffers
    /\ last_call' = call
    /\ Return(out, d, ok)
    /\ UNCHANGED finished

Repend_Never(popped, buffers) == popped

\* if curr.has_output(): self.pending_filters.append(curr)
Repend(popped, buffers) ==
    IF Len(buffers[i]) > 0 THEN Append(popped, i) ELSE popped

\* The current filter is given nothing: a streaming filter hands out the
\* next value of its buffer.
Drain ==
    LET popped == IF Len(pending_filters) > 0
                  THEN SubSeq(pending_filters, 1, Len(pending_filters) - 1)
                  ELSE pending_filters
        out == Head(stream_output[i])
        buffers == [stream_output EXCEPT ![i] = Tail(@)]
        pending == Repend(popped, buffers)
    IN  IF i = Len(filters) /\ out # None
        THEN Yield(pending, buffers, last_call, dfs, conform, out)
        ELSE Continue(pending, buffers, last_call, dfs, conform, out)

\* The current filter is given output and produces c values.
Apply(c) ==
    LET outs == Outputs(i, output, c)
        call == [filter |-> i, item |-> output]
        g == DfsCall(i, output, outs)
        out == IF Len(outs) > 0 THEN Head(outs) ELSE None
        buffers == IF IsStream(i)
                   THEN [stream_output EXCEPT
                            ![i] = IF Len(outs) > 0 THEN Tail(outs) ELSE <<>>]
                   ELSE stream_output
        pending == IF IsStream(i)
                   THEN Repend(pending_filters, buffers)
                   ELSE pending_filters
    IN  IF out = None
        THEN EndPass(pending, buffers, call, g.d, g.ok)
        ELSE IF i = Len(filters)
             THEN Yield(pending, buffers, call, g.d, g.ok, out)
             ELSE Continue(pending, buffers, call, g.d, g.ok, out)

\* One round of the for loop, and what follows the loop when it ends.
Next_For ==
    /\ pc = "for"
    /\ UNCHANGED <<data, filters, session, first, stopped, stop_at_entry,
                   call_at_entry, exvars, argvars, libvars>>
    /\ IF i > Len(filters) \/ SessionStopped
       THEN EndPass(pending_filters, stream_output, last_call, dfs, conform)
       ELSE IF output = None
            THEN IF IsStream(i) /\ has_output(i)
                 THEN Drain
                 ELSE EndPass(pending_filters, stream_output, last_call,
                              dfs, conform)
            ELSE \E c \in Counts(i) : Apply(c)

\* ---------------------------------------------------------------- execute()
\* The stages of a pipeline of n filters: the reader is stage 0, the filters
\* are stages 1..n in chain order, the writer is stage n + 1.
ReaderStage == 0

WriterStage == args.filters_ + 1

\* The writer is None, a StreamWriter, a BatchWriter or some other Writer.
WriterKinds == {"None", "StreamWriter", "BatchWriter", "Writer"}

\* What execute() is called with: the number of filters, whether the reader
\* and the writer are Initializable (every BatchFilter is), the kind of the
\* writer, session.options.force_batch, and whether the reader is an
\* InfiniteReader that reports is_infinite().
\* count is session.count as the caller hands the session over, and
\* update_interval is session.options.update_interval.
ArgumentsOver(counts, intervals) ==
    {a \in [filters_ : 0..MaxStages, reader_initializable : BOOLEAN,
            writer : WriterKinds, writer_initializable : BOOLEAN,
            force_batch : BOOLEAN, is_infinite : BOOLEAN,
            count : counts, update_interval : intervals] :
        a.writer = "None" => ~a.writer_initializable}

\* A fresh session that reports every record.
Arguments == ArgumentsOver({0}, {1})

\* isinstance(stage, Initializable), and writer is not None for the writer
IsInitializable(s) ==
    IF s = ReaderStage THEN args.reader_initializable
    ELSE IF s = WriterStage
         THEN args.writer # "None" /\ args.writer_initializable
         ELSE TRUE

\* A single value, and a list of values, as a filter chain yields them and
\* a writer is given them.
Value(x) == [list |-> FALSE, items |-> <<x>>]

ListValue(xs) == [list |-> TRUE, items |-> xs]

NoValue == ListValue(<<>>)

\* execute() up to its first initialize(): the filters are assembled, the
\* session is propagated.
StartExecute(arguments) ==
    /\ args \in arguments
    /\ epc = "initialize" /\ stage = ReaderStage
    /\ init_log = <<>> /\ init_failed = -1 /\ finalize_log = <<>>
    /\ batch_mode = "unset" /\ warned = FALSE
    /\ count = args.count /\ nread = 0 /\ item = None
    /\ npull = 0 /\ filtered = NoValue
    /\ data_list = <<>> /\ filtered_data = <<>> /\ widx = 0
    /\ writes = <<>> /\ raised = "no"
    /\ yields = <<>> /\ logged = <<>>

InitExecute == StartExecute(Arguments)

\* execute() is not running.
NoExecute ==
    /\ args = [filters_ |-> 0, reader_initializable |-> FALSE,
               writer |-> "None", writer_initializable |-> FALSE,
               force_batch |-> FALSE, is_infinite |-> FALSE,
               count |-> 0, update_interval |-> 1]
    /\ epc = "off" /\ stage = ReaderStage
    /\ init_log = <<>> /\ init_failed = -1 /\ finalize_log = <<>>
    /\ batch_mode = "unset" /\ warned = FALSE
    /\ count = args.count /\ nread = 0 /\ item = None
    /\ npull = 0 /\ filtered = NoValue
    /\ data_list = <<>> /\ filtered_data = <<>> /\ widx = 0
    /\ writes = <<>> /\ raised = "no"
    /\ yields = <<>> /\ logged = <<>>

Returns_Never(ok, next) == next

\* if ... and not init_initializable(...): return
Returns(ok, next) == IF ok THEN next ELSE "done"

\* One stage of "# initialize": init_initializable() on the stage when it is
\* Initializable; initialize() returns or raises, and execute() returns when
\* it has raised.
Initialize ==
    /\ epc = "initialize"
    /\ UNCHANGED <<libvars, argvars, itvars, hvars, stopped, args, procvars, finalize_log,
                   batch_mode, warned, raised>>
    /\ IF stage > WriterStage
       THEN epc' = "mode" /\ UNCHANGED <<stage, init_log, init_failed>>
       ELSE IF ~IsInitializable(stage)
            THEN /\ stage' = stage + 1
                 /\ UNCHANGED <<epc, init_log, init_failed>>
            ELSE \E ok \in BOOLEAN :
                    /\ init_log' = Append(init_log, stage)
                    /\ init_failed' = IF ok THEN init_failed ELSE stage
                    /\ epc' = Returns(ok, "initialize")
                    /\ stage' = stage + 1

BatchMode_AsRequested == args.force_batch \/ args.writer = "BatchWriter"

\* batch_mode as lines 154-158 leave it
BatchMode ==
    IF args.is_infinite
    THEN FALSE
    ELSE args.force_batch \/ args.writer = "BatchWriter"

\* "# batch mode?" and the choice of the execution
SelectMode ==
    /\ epc = "mode"
    /\ batch_mode' = IF BatchMode THEN "batch" ELSE "stream"
    /\ warned' = (args.is_infinite /\ args.force_batch)
    /\ epc' = IF BatchMode THEN "b_read" ELSE "s_read"
    /\ UNCHANGED <<libvars, argvars, itvars, hvars, stopped, args, procvars, stage, init_log,
                   init_failed, finalize_log, raised>>

Except_Propagate == epc' = "done" /\ raised' = "propagated" /\ stage' = stage

\* except: traceback.print_exc(), then "# clean up"
Except == epc' = "finalize" /\ raised' = "caught" /\ stage' = ReaderStage

\* _stream_execution / _batch_execution return, the total is logged, then
\* "# clean up"
Finish == epc' = "finalize" /\ raised' = raised /\ stage' = ReaderStage

Goto(next) == epc' = next /\ raised' = raised /\ stage' = stage

\* What no step of the processing changes.
Processing ==
    UNCHANGED <<libvars, argvars, itvars, hvars, stopped, args, init_log, init_failed,
                finalize_log, batch_mode, warned>>

\* for item in reader.read(): the reader hands out its next item or None,
\* or raises, or ends the pass; after the pass the loop is left when
\* reader.has_finished().
Read(next, after) ==
    \/ /\ nread < MaxItems
       /\ nread' = nread + 1 /\ item' = <<nread + 1>>
       /\ Goto(next)
    \/ nread' = nread /\ item' = None /\ Goto(next)
    \/ nread' = nread /\ item' = None /\ Except
    \/ nread' = nread /\ item' = None /\ Goto(after)

\* next() on the generator filter_data(x, filters_, session), x being the
\* value the generator was made for and ys what a chain of filters may yield
\* for it in this pull.  With no filters the chain yields x itself, whatever
\* the stop flag; a chain of filters yields nothing once the stop flag is
\* set, and a filter may raise.
Pull(x, ys, next, after) ==
    IF args.filters_ = 0
    THEN IF npull = 0
         THEN /\ filtered' = x /\ npull' = 1
              /\ yields' = Append(yields, x)
              /\ Goto(next)
         ELSE UNCHANGED <<filtered, npull, yields>> /\ Goto(after)
    ELSE IF stopped
         THEN UNCHANGED <<filtered, npull, yields>> /\ Goto(after)
         ELSE \/ /\ npull < MaxOut
                 /\ filtered' \in ys /\ npull' = npull + 1
                 /\ yields' = Append(yields, filtered')
                 /\ Goto(next)
              \/ UNCHANGED <<filtered, npull, yields>> /\ Goto(after)
              \/ UNCHANGED <<filtered, npull, yields>> /\ Except

CountItem_PerOutput(c) == c

\* session.count += 1
CountItem(c) == c + 1

\* if n % session.options.update_interval == 0: session.logger.info(...)
Progress(msg, n) ==
    IF n % args.update_interval = 0
    THEN Append(logged, [msg |-> msg, n |-> n])
    ELSE logged

WriterCall_Dropped(op, arg, next) == writes' = writes /\ Goto(next)

\* A call of the writer: it returns or raises.
WriterCall(op, arg, next) ==
    /\ writes' = Append(writes, [op |-> op, arg |-> arg])
    /\ \/ Goto(next)
       \/ Except

\* _stream_execution, line 24 and lines 41-42
S_Read ==
    /\ epc = "s_read"
    /\ Read("s_item", "return")
    /\ Processing
    /\ UNCHANGED <<count, npull, filtered, data_list, filtered_data, widx,
                   writes, yields, logged>>

\* _stream_execution, lines 25-30
S_Item ==
    /\ epc = "s_item"
    /\ Processing
    /\ UNCHANGED <<nread, item, filtered, data_list, filtered_data, widx,
                   writes, yields, logged>>
    /\ IF item = None
       THEN Goto("s_read") /\ UNCHANGED <<count, npull>>
       ELSE IF stopped
            THEN Goto("return") /\ UNCHANGED <<count, npull>>
            ELSE count' = CountItem(count) /\ npull' = 0 /\ Goto("s_pull")

\* _stream_execution, line 30
S_Pull ==
    /\ epc = "s_pull"
    /\ Pull(Value(item), {Value(Append(item, npull + 1))}, "s_filtered",
            "s_read")
    /\ Processing
    /\ UNCHANGED <<count, nread, item, data_list, filtered_data, widx,
                   writes, logged>>

\* _stream_execution, lines 31-40
S_Filtered ==
    /\ epc = "s_filtered"
    /\ Processing
    /\ UNCHANGED <<count, nread, item, npull, filtered, data_list,
                   filtered_data, widx, yields>>
    /\ IF stopped
       THEN Goto("return") /\ UNCHANGED writes
       ELSE IF args.writer = "StreamWriter"
            THEN WriterCall("write_stream", filtered, "s_pull")
            ELSE IF args.writer = "BatchWriter"
                 THEN WriterCall("write_batch", filtered, "s_pull")
                 ELSE Goto("s_pull") /\ UNCHANGED writes
    /\ logged' = IF epc' = "s_pull" THEN Progress("processed", count)
                 ELSE logged

\* _batch_execution, line 60 and lines 69-70
B_Read ==
    /\ epc = "b_read"
    /\ Read("b_item", "b_filter")
    /\ Processing
    /\ UNCHANGED <<count, npull, filtered, data_list, filtered_data, widx,
                   writes, yields, logged>>

\* _batch_execution, lines 61-68
B_Item ==
    /\ epc = "b_item"
    /\ Processing
    /\ UNCHANGED <<nread, item, npull, filtered, filtered_data, widx, writes,
                   yields>>
    /\ IF item = None
       THEN Goto("b_read") /\ UNCHANGED <<count, data_list, logged>>
       ELSE IF stopped
            THEN Goto("return") /\ UNCHANGED <<count, data_list, logged>>
            ELSE /\ count' = CountItem(count)
                 /\ logged' = Progress("read", count')
                 /\ data_list' = Append(data_list, item)
                 /\ Goto("b_read")

\* _batch_execution, lines 72-77
B_Filter ==
    /\ epc = "b_filter"
    /\ Processing
    /\ UNCHANGED <<count, nread, item, filtered, data_list, widx, writes,
                   yields, logged>>
    /\ IF stopped
       THEN Goto("return") /\ UNCHANGED <<filtered_data, npull>>
       ELSE filtered_data' = <<>> /\ npull' = 0 /\ Goto("b_pull")

\* What a chain of filters may yield for the list xs it is given as one
\* value: a list (here the list itself, or the empty list) or, like
\* BatchFilter.process with one record left, a single record.
BatchYields(xs) ==
    {ListValue(xs), ListValue(<<>>)} \cup {Value(xs[n]) : n \in 1..Len(xs)}

\* _batch_execution, line 77
B_Pull ==
    /\ epc = "b_pull"
    /\ Pull(ListValue(data_list), BatchYields(data_list), "b_filtered",
            "b_filter_end")
    /\ Processing
    /\ UNCHANGED <<count, nread, item, data_list, filtered_data, widx,
                   writes, logged>>

Collect_Last(collected, v) == v.items

\* filtered_data.extend(filtered) for a list, filtered_data.append(filtered)
\* for anything else
Collect(collected, v) == collected \o v.items

\* _batch_execution, lines 78-83
B_Filtered ==
    /\ epc = "b_filtered"
    /\ Processing
    /\ UNCHANGED <<count, nread, item, npull, filtered, data_list, widx,
                   writes, yields, logged>>
    /\ IF stopped
       THEN Goto("return") /\ UNCHANGED filtered_data
       ELSE /\ filtered_data' = Collect(filtered_data, filtered)
            /\ Goto("b_pull")

\* _batch_execution, lines 84-101 up to the first call of the writer
B_Write ==
    /\ epc = "b_filter_end"
    /\ Processing
    /\ UNCHANGED <<count, nread, item, npull, filtered, filtered_data,
                   yields, logged>>
    /\ data_list' = filtered_data
    /\ IF stopped \/ args.writer = "None"
       THEN Goto("return") /\ UNCHANGED <<widx, writes>>
       ELSE IF args.writer = "StreamWriter"
            THEN widx' = 1 /\ Goto("b_write_stream") /\ UNCHANGED writes
            ELSE IF args.writer = "BatchWriter"
                 THEN /\ WriterCall("write_batch", ListValue(filtered_data),
                                    "return")
                      /\ UNCHANGED widx
                 ELSE Except /\ UNCHANGED <<widx, writes>>

\* _batch_execution, lines 93-97
B_WriteStream ==
    /\ epc = "b_write_stream"
    /\ Processing
    /\ UNCHANGED <<count, nread, item, npull, filtered, data_list,
                   filtered_data, yields>>
    /\ IF widx > Len(data_list)
       THEN Goto("return") /\ UNCHANGED <<widx, writes, logged>>
       ELSE /\ WriterCall("write_stream", Value(data_list[widx]),
                          "b_write_stream")
            /\ widx' = widx + 1
            /\ logged' = IF epc' = "b_write_stream"
                         THEN Progress("written", widx)
                         ELSE logged

\* _stream_execution or _batch_execution has returned: line 166
Return_ ==
    /\ epc = "return"
    /\ Finish
    /\ Processing
    /\ UNCHANGED procvars

\* One stage of "# clean up"
Finalize ==
    /\ epc = "finalize"
    /\ UNCHANGED <<libvars, argvars, itvars, hvars, stopped, args, procvars, init_log,
                   init_failed, batch_mode, warned, raised>>
    /\ IF stage > WriterStage
       THEN epc' = "done" /\ UNCHANGED <<stage, finalize_log>>
       ELSE /\ stage' = stage + 1
            /\ epc' = epc
            /\ finalize_log' = IF IsInitializable(stage)
                               THEN Append(finalize_log, stage)
                               ELSE finalize_log

\* Session.stopped is set from outside: by a plugin, or by the caller.
SetStopped ==
    /\ session
    /\ ~stopped
    /\ epc # "done"
    /\ stopped' = TRUE
    /\ UNCHANGED <<itvars, hvars, exvars, argvars, libvars>>

\* --------------------------------------------------------------- split_args
\* A string is the sequence of its characters.  The handler names in use and
\* the tokens of a command line: names, a prefix of names, the empty string
\* and an option.
Names == {<<"r">>, <<"r", "a">>, <<"r", "b">>}

Tokens == Names \cup {<<>>, <<"-">>}

RECURSIVE TokenLists(_)
TokenLists(n) ==
    IF n = 0 THEN {<<>>}
    ELSE LET shorter == TokenLists(n - 1)
         IN  shorter \cup {Append(l, t) : l \in shorter, t \in Tokens}

\* handler.startswith(search)
StartsWith(s, prefix) ==
    Len(prefix) <= Len(s) /\ SubSeq(s, 1, Len(prefix)) = prefix

\* What resolve_handler returns: a name, or None.
Found(name) == [found |-> TRUE, name |-> name]

NotFound == [found |-> FALSE, name |-> <<>>]

resolve_handler_AnyMatch(search, hs, p) ==
    LET matches == {h \in hs : StartsWith(h, search)}
    IN  IF search \in hs THEN Found(search)
        ELSE IF p /\ matches # {}
             THEN Found(CHOOSE h \in matches : TRUE)
             ELSE NotFound

resolve_handler(search, hs, p) ==
    LET matches == {h \in hs : StartsWith(h, search)}
    IN  IF search \in hs THEN Found(search)
        ELSE IF p /\ Cardinality(matches) = 1
             THEN Found(CHOOSE h \in matches : TRUE)
             ELSE NotFound

Digit == <<"0", "1", "2", "3", "4", "5", "6", "7", "8", "9">>

RECURSIVE str(_)
\* str(n) of a natural number
str(n) ==
    IF n < 10 THEN Digit[n + 1] ELSE str(n \div 10) \o Digit[(n % 10) + 1]

\* A dict is the sequence of its entries in insertion order.
HasKey(d, key) == \E e \in 1..Len(d) : d[e].key = key

\* d[key] = v: a present key keeps its place, a new key is added last
SetItem(d, key, v) ==
    IF HasKey(d, key)
    THEN [e \in 1..Len(d) |->
             IF d[e].key = key THEN [key |-> key, value |-> v] ELSE d[e]]
    ELSE Append(d, [key |-> key, value |-> v])

Store_Global(d, lh, la) == SetItem(d, "", la)

\* lines 112-115: the group collected so far is stored when a handler is
\* found
Store(d, lh, la) ==
    IF Len(lh) > 0
    THEN SetItem(d, str(Len(d)), la)
    ELSE SetItem(d, "", la)

\* split_args up to its loop
InitSplit ==
    /\ tokens \in TokenLists(MaxArgs)
    /\ handlers \in SUBSET Names
    /\ partial \in BOOLEAN
    /\ spc = "for" /\ ntaken = 0 /\ handler = NotFound
    /\ groups = <<>> /\ last_handler = <<>> /\ last_args = <<>>

\* split_args is not running.
NoSplit ==
    /\ tokens = <<>> /\ handlers = {} /\ partial = FALSE
    /\ spc = "off" /\ ntaken = 0 /\ handler = NotFound
    /\ groups = <<>> /\ last_handler = <<>> /\ last_args = <<>>

\* Neither an iterator nor execute() is in use.
Idle ==
    /\ stopped = FALSE
    /\ data = Input /\ filters = <<>> /\ session = TRUE
    /\ finished = FALSE /\ pending_filters = <<>> /\ first = TRUE
    /\ stream_output = <<>>
    /\ pc = "off" /\ i = 0 /\ output = None
    /\ result = "none" /\ value = None
    /\ NoExecute

\* One iteration of the loop, lines 109-120
Split_For ==
    /\ spc = "for"
    /\ ntaken < Len(tokens)
    /\ LET arg == tokens[ntaken + 1]
           h == resolve_handler(arg, handlers, partial)
       IN  /\ handler' = h
           /\ IF h.found
              THEN /\ groups' = Store(groups, last_handler, last_args)
                   /\ last_handler' = h.name
                   /\ last_args' = <<h.name>>
              ELSE /\ last_args' = Append(last_args, arg)
                   /\ UNCHANGED <<groups, last_handler>>
    /\ ntaken' = ntaken + 1
    /\ UNCHANGED <<tokens, handlers, partial, spc>>
    /\ UNCHANGED <<itvars, hvars, stopped, exvars, libvars>>

\* The loop is over: lines 122-125
Split_Return ==
    /\ spc = "for"
    /\ ntaken = Len(tokens)
    /\ groups' = IF Len(last_args) > 0
                 THEN SetItem(groups, str(Len(groups)), last_args)
                 ELSE groups
    /\ spc' = "returned"
    /\ UNCHANGED <<tokens, handlers, partial, ntaken, handler, last_handler,
                   last_args>>
    /\ UNCHANGED <<itvars, hvars, stopped, exvars, libvars>>

\* ---------------------------------------------------- args_to_objects()
\* src/seppl/_args.py, lines 128-175

\* The plugins of valid_plugins: a reader, which cannot be skipped, and a
\* filter, which can; "f2" is a second name of the filter.
PluginNames == {"r", "f", "f2"}

\* The heap holds the plugin objects; an object is named by its place.
ReaderObject == 1

FilterObject == 2

Prototypes == {ReaderObject, FilterObject}

valid_plugins ==
    [n \in PluginNames |-> IF n = "r" THEN ReaderObject ELSE FilterObject]

\* A plugin object: its class, whether the class is a SkippablePlugin, and
\* what parsing has set.
PluginObject(c, s) ==
    [class |-> c, skippable |-> c = "filter", skip |-> s, verbose |-> FALSE]

\* The options a group can hold after its plugin's name: the skip flag of
\* a skippable plugin, an option of every plugin, and a token no plugin
\* knows.
SubArgs ==
    {<<>>, <<"--skip">>, <<"-v">>, <<"?">>, <<"--skip", "?">>,
     <<"--skip", "-v">>}

Known(o, t) == t = "-v" \/ (t = "--skip" /\ o.skippable)

\* Plugin.parse_args, lines 61-73 of _plugin.py: the options the plugin
\* knows are applied, the others are returned.
parse_args(o, sub_args) ==
    LET has(t) == \E k \in 1..Len(sub_args) : sub_args[k] = t
        unknown(t) == ~Known(o, t)
    IN  [object |-> [o EXCEPT !.skip = o.skippable /\ has("--skip"),
                              !.verbose = has("-v")],
         unknown |-> SelectSeq(sub_args, unknown)]

deepcopy_Shared(h, id) == [heap |-> h, id |-> id]

\* copy.deepcopy(valid_plugins[name]), line 152: a new object with the
\* configuration of the prototype
deepcopy(h, id) == [heap |-> Append(h, h[id]), id |-> Len(h) + 1]

is_skipped_Never(o) == FALSE

\* lines 168-169: isinstance(result[i], SkippablePlugin) and
\* result[i].is_skipped
is_skipped(o) == o.skippable /\ o.skip

RECURSIVE GroupLists(_)
\* The groups of the handlers: a plugin name and its options
GroupLists(n) ==
    IF n = 0 THEN {<<>>}
    ELSE LET shorter == GroupLists(n - 1)
         IN  shorter \cup
             {Append(l, <<name>> \o sub) :
                 l \in shorter, name \in PluginNames, sub \in SubArgs}

\* The dicts split_args makes: the global options first, when there are
\* any, then the groups under consecutive keys.
ArgDicts ==
    {g \o [k \in 1..Len(l) |-> [key |-> str(k - 1), value |-> l[k]]] :
        g \in {<<>>, <<[key |-> "", value |-> <<>>]>>,
               <<[key |-> "", value |-> <<"?">>]>>},
        l \in GroupLists(MaxGroups)}

\* args_to_objects up to its loop; the prototypes are as some earlier use
\* left them.
InitObjects ==
    /\ arg_groups \in ArgDicts
    /\ allow_global_options \in BOOLEAN
    /\ allow_unknown_args \in BOOLEAN
    /\ \E s \in BOOLEAN :
          heap = <<PluginObject("reader", FALSE), PluginObject("filter", s)>>
    /\ heap0 = heap
    /\ opc = "for" /\ okey = 0 /\ objects = <<>> /\ oi = 0

\* args_to_objects is not running.
NoObjects ==
    /\ arg_groups = <<>>
    /\ allow_global_options = FALSE /\ allow_unknown_args = FALSE
    /\ heap = <<>> /\ heap0 = <<>>
    /\ opc = "off" /\ okey = 0 /\ objects = <<>> /\ oi = 0

\* One iteration of the loop over the keys, lines 147-162
Objects_For ==
    /\ opc = "for"
    /\ okey < Len(arg_groups)
    /\ okey' = okey + 1
    /\ LET group == arg_groups[okey + 1]
       IN  IF group.key = ""
           THEN /\ opc' = IF ~allow_global_options /\ Len(group.value) > 0
                          THEN "no_global" ELSE "for"
                /\ UNCHANGED <<heap, objects>>
           ELSE LET name == group.value[1]
                    sub_args == Tail(group.value)
                    copy == deepcopy(heap, valid_plugins[name])
                    parsed == parse_args(copy.heap[copy.id], sub_args)
                    failed == ~allow_unknown_args /\ Len(parsed.unknown) > 0
                IN  /\ heap' = [copy.heap EXCEPT ![copy.id] = parsed.object]
                    /\ opc' = IF failed THEN "unknown_args" ELSE "for"
                    /\ objects' = IF failed THEN objects
                                  ELSE Append(objects, copy.id)
    /\ UNCHANGED <<arg_groups, allow_global_options, allow_unknown_args,
                   heap0, oi>>
    /\ UNCHANGED NotObjects

\* The loop is over: the removal loop starts, lines 165-166
Objects_Parsed ==
    /\ opc = "for"
    /\ okey = Len(arg_groups)
    /\ opc' = "while" /\ oi' = 0
    /\ UNCHANGED <<arg_groups, allow_global_options, allow_unknown_args,
                   heap, heap0, okey, objects>>
    /\ UNCHANGED NotObjects

\* One iteration of the removal loop, or its end: lines 166-175
Objects_While ==
    /\ opc = "while"
    /\ IF oi < Len(objects)
       THEN IF is_skipped(heap[objects[oi + 1]])
            THEN /\ objects' = SubSeq(objects, 1, oi)
                               \o SubSeq(objects, oi + 2, Len(objects))
                 /\ UNCHANGED <<oi, opc>>
            ELSE /\ oi' = oi + 1
                 /\ UNCHANGED <<objects, opc>>
       ELSE /\ opc' = "returned"
            /\ UNCHANGED <<objects, oi>>
    /\ UNCHANGED <<arg_groups, allow_global_options, allow_unknown_args,
                   heap, heap0, okey>>
    /\ UNCHANGED NotObjects

\* --------------------------------------------------------------- Registry
\* src/seppl/_registry.py

\* The entry point groups asked for
Groups == {"g1", "g2"}

\* The modules that hold plugin classes: p, its submodule p.q, and r
ModP == <<"p">>

ModPQ == <<"p", "q">>

ModR == <<"r">>

\* What the setters make of None: [""], the module with the empty name
NoModule == <<"">>

\* The placeholder of the environment variable, line 21
DEFAULT == <<"DEFAULT">>

\* The plugin classes: A has an alias of its own, an alias of B is the
\* name of A, C has no alias, and D has the name of A.
PluginClasses == {"A", "B", "C", "D"}

ClassInfo ==
    [c \in PluginClasses |->
        CASE c = "A" -> [module |-> ModP, name |-> "a", aliases |-> <<"x">>]
          [] c = "B" -> [module |-> ModPQ, name |-> "b", aliases |-> <<"a">>]
          [] c = "C" -> [module |-> ModR, name |-> "c", aliases |-> <<>>]
          [] c = "D" -> [module |-> ModR, name |-> "a", aliases |-> <<>>]]

\* dir(module): the public classes of a module, in alphabetical order
ModuleClasses(mod) ==
    CASE mod = ModP -> <<"A">>
      [] mod = ModPQ -> <<"B">>
      [] mod = ModR -> <<"C", "D">>
      [] OTHER -> <<>>

RegNames == {"a", "b", "c", "x"}

\* A dict from names to plugins; a name that is not a key is Unbound.
Unbound == "none"

EmptyDict == [n \in RegNames |-> Unbound]

IsEmptyDict(d) == \A n \in RegNames : d[n] = Unbound

\* d.update(e)
Update(d, e) == [n \in RegNames |-> IF e[n] # Unbound THEN e[n] ELSE d[n]]

Elements(s) == {s[k] : k \in 1..Len(s)}

\* d[name] = o for every name of names
Bind(d, names, o) ==
    [n \in RegNames |-> IF n \in Elements(names) THEN o ELSE d[n]]

\* _types.py, get_class_name: module and class of the plugin
get_class_name(o) == Append(ClassInfo[o].module, o)

\* _plugin.py, lines 116-129
get_aliases(o) == ClassInfo[o].aliases

\* _plugin.py, lines 132-143: the name first, then the aliases
get_all_names(o) == <<ClassInfo[o].name>> \o get_aliases(o)

\* lines 118-128: the variable is named and holds a non-empty value
has_env_modules == env_modules /\ Len(environ) > 0

RECURSIVE Expand(_, _)
\* lines 244-258 and 272: DEFAULT is replaced by the default modules and
\* the value is split at the commas
Expand(v, defaults) ==
    IF v = <<>> THEN <<>>
    ELSE (IF Head(v) = DEFAULT THEN defaults ELSE <<Head(v)>>)
         \o Expand(Tail(v), defaults)

actual_fallback_modules_EnvFirst ==
    IF has_env_modules THEN Expand(environ, default_modules)
    ELSE IF Len(custom_modules) > 0 THEN custom_modules
         ELSE default_modules

\* lines 260-275; custom_modules None is the empty list here
actual_fallback_modules ==
    IF Len(custom_modules) > 0 THEN custom_modules
    ELSE IF has_env_modules THEN Expand(environ, default_modules)
         ELSE default_modules

\* lines 277-289, with no environment variable for the excluded modules
actual_excluded_modules == excluded_modules

\* lines 291-308: classname.startswith(m + ".")
is_excluded(o) ==
    \E k \in 1..Len(actual_excluded_modules) :
        /\ Len(actual_excluded_modules[k]) < Len(get_class_name(o))
        /\ StartsWith(get_class_name(o), actual_excluded_modules[k])

\* line 310-319
is_alias(name) == name \in all_aliases

\* What a call of _register_plugin leaves: the registry's dicts, the dict
\* it was given, and True, False or the exception raised
Registered(ap, aa, d, outcome) ==
    [all_plugins |-> ap, all_aliases |-> aa, d |-> d, outcome |-> outcome]

register_plugin_Unchecked(ap, aa, d, o) ==
    LET names == get_all_names(o)
    IN  IF is_excluded(o) THEN Registered(ap, aa, d, "False")
        ELSE Registered(Bind(ap, names, o),
                        aa \cup Elements(get_aliases(o)),
                        Bind(d, names, o), "True")

\* _register_plugin, lines 331-360
register_plugin(ap, aa, d, o) ==
    LET names == get_all_names(o)
        idx == 1..Len(names)
        present == \E k \in idx : ap[names[k]] # Unbound
        \* the names at which line 349 does not go on to the next name
        stops == {k \in idx :
                     \/ ap[names[k]] = Unbound
                     \/ get_class_name(ap[names[k]]) # get_class_name(o)}
        stop == CHOOSE k \in stops : \A l \in stops : k <= l
    IN  IF is_excluded(o) THEN Registered(ap, aa, d, "False")
        ELSE IF enforce_uniqueness /\ present
             THEN IF stops = {}
                  THEN Registered(ap, aa \cup Elements(get_aliases(o)), d,
                                  "True")
                  ELSE Registered(ap, aa, d,
                                  IF ap[names[stop]] = Unbound
                                  THEN "KeyError" ELSE "Duplicate")
             ELSE Registered(Bind(ap, names, o),
                             aa \cup Elements(get_aliases(o)),
                             Bind(d, names, o), "True")

RECURSIVE ClassesOf(_)
\* The classes that scanning the modules mods one after the other comes to,
\* lines 386-392 and 419-420
ClassesOf(mods) ==
    IF mods = <<>> THEN <<>>
    ELSE ModuleClasses(Head(mods)) \o ClassesOf(Tail(mods))

\* The modules of the entry points, item.module_name at line 449
EntryModules(items) == [k \in 1..Len(items) |-> ClassInfo[items[k]].module]

\* line 470: register from modules as well?
with_fallback(plugins) ==
    IsEmptyDict(plugins) \/ Len(custom_modules) > 0 \/ has_env_modules

\* _plugins[group] is missing
NotStored == [present |-> FALSE, plugins |-> EmptyDict]

\* _plugins[group] = plugins
Stored(plugins) == [present |-> TRUE, plugins |-> plugins]

Cleared_Kept == stored

\* self._plugins = dict()
Cleared == [g \in Groups |-> NotStored]

\* The sequences of at most n entry points
RECURSIVE EntryLists(_)
EntryLists(n) ==
    IF n = 0 THEN {<<>>}
    ELSE LET shorter == EntryLists(n - 1)
         IN  shorter \cup {Append(l, c) : l \in shorter, c \in PluginClasses}

\* No call of plugins() yet
NoCall ==
    [group |-> "none", ran |-> FALSE, raised |-> "no", log |-> <<>>,
     from_entry |-> EmptyDict, scanned |-> <<>>, from_modules |-> EmptyDict,
     returned |-> EmptyDict]

\* __init__, lines 76-116: the dicts are empty
InitRegistry ==
    /\ mode \in {"explicit", "dynamic"}
    /\ enforce_uniqueness \in BOOLEAN
    /\ default_modules = <<ModR>>
    /\ stored = [g \in Groups |-> NotStored]
    /\ all_plugins = EmptyDict /\ all_aliases = {}
    /\ rcall = NoCall
    /\ rpc = "idle" /\ todo = <<>>
    /\ nregister = [g \in Groups |-> 0]
    /\ nchanges = 0

\* No registry has been made.
NoRegistry ==
    /\ mode = "explicit" /\ enforce_uniqueness = TRUE
    /\ entry_points = [g \in Groups |-> <<>>]
    /\ environ = <<>>
    /\ default_modules = <<NoModule>> /\ env_modules = FALSE
    /\ excluded_modules = <<NoModule>> /\ custom_modules = <<>>
    /\ stored = [g \in Groups |-> NotStored]
    /\ all_plugins = EmptyDict /\ all_aliases = {}
    /\ rcall = NoCall
    /\ rpc = "idle" /\ todo = <<>>
    /\ nregister = [g \in Groups |-> 0]
    /\ nchanges = 0

\* plugins(group), lines 475-487, up to the loop of
\* _register_from_entry_point: the stored mapping is returned, or _register
\* is called and comes to the entry points of the group, whose classes
\* (explicit mode) or whose modules' classes (dynamic mode) are the
\* candidates
Plugins(group) ==
    /\ rpc = "idle"
    /\ IF stored[group].present
       THEN /\ rcall' = [NoCall EXCEPT !.group = group,
                                        !.returned = stored[group].plugins]
            /\ UNCHANGED <<rpc, todo, nregister>>
       ELSE /\ nregister[group] < MaxRuns
            /\ nregister' = [nregister EXCEPT ![group] = @ + 1]
            /\ rcall' = [NoCall EXCEPT !.group = group, !.ran = TRUE]
            /\ rpc' = "entry"
            /\ todo' = IF mode = "explicit" THEN entry_points[group]
                       ELSE ClassesOf(EntryModules(entry_points[group]))
    /\ UNCHANGED <<mode, enforce_uniqueness, entry_points, environ,
                   default_modules, env_modules, excluded_modules,
                   custom_modules, stored, all_plugins, all_aliases,
                   nchanges>>
    /\ UNCHANGED NotRegistry

\* One candidate: it is instantiated and _register_plugin is called with
\* the dict of the caller, which then binds the names itself and records
\* the aliases (lines 394-400, 440-445). What the call raises ends plugins()
\* for an explicit entry point and is printed when a module is scanned
\* (lines 401-405). The dicts of the modules are put over one another in
\* the order of the modules (lines 420, 450), so one dict stands for them.
Register_Candidate ==
    /\ rpc \in {"entry", "modules"}
    /\ todo # <<>>
    /\ LET o == Head(todo)
           path == IF rpc = "entry" /\ mode = "explicit"
                   THEN "explicit" ELSE "module"
           d == IF rpc = "entry" THEN rcall.from_entry
                ELSE rcall.from_modules
           rp == register_plugin(all_plugins, all_aliases, d, o)
           call == [class |-> o, path |-> path, before |-> all_plugins,
                    after |-> rp.all_plugins, outcome |-> rp.outcome]
           bound == IF rp.outcome = "True"
                    THEN Bind(rp.d, get_all_names(o), o) ELSE rp.d
           raises == path = "explicit" /\ rp.outcome \notin {"True", "False"}
       IN  /\ all_plugins' = rp.all_plugins
           /\ all_aliases' = rp.all_aliases
           /\ rcall' = [rcall EXCEPT
                           !.log = Append(@, call),
                           !.from_entry = IF rpc = "entry" THEN bound ELSE @,
                           !.from_modules = IF rpc = "modules" THEN bound
                                            ELSE @,
                           !.raised = IF raises THEN rp.outcome ELSE @]
           /\ rpc' = IF raises THEN "idle" ELSE rpc
           /\ todo' = IF raises THEN <<>> ELSE Tail(todo)
    /\ UNCHANGED <<mode, enforce_uniqueness, entry_points, environ,
                   default_modules, env_modules, excluded_modules,
                   custom_modules, stored, nregister, nchanges>>
    /\ UNCHANGED NotRegistry

\* The entry points are done, lines 468-471: the classes of the fallback
\* modules are the next candidates, or there are none
Register_Modules ==
    /\ rpc = "entry"
    /\ todo = <<>>
    /\ rpc' = "modules"
    /\ IF with_fallback(rcall.from_entry)
       THEN /\ todo' = ClassesOf(actual_fallback_modules)
            /\ rcall' = [rcall EXCEPT !.scanned = actual_fallback_modules]
       ELSE UNCHANGED <<todo, rcall>>
    /\ UNCHANGED <<mode, enforce_uniqueness, entry_points, environ,
                   default_modules, env_modules, excluded_modules,
                   custom_modules, stored, all_plugins, all_aliases,
                   nregister, nchanges>>
    /\ UNCHANGED NotRegistry

\* The modules are done, lines 471-473 and 487: the plugins of the modules
\* are put over those of the entry points, stored and returned
Register_Store ==
    /\ rpc = "modules"
    /\ todo = <<>>
    /\ rpc' = "idle"
    /\ LET plugins == Update(rcall.from_entry, rcall.from_modules)
       IN  /\ stored' = [stored EXCEPT ![rcall.group] = Stored(plugins)]
           /\ rcall' = [rcall EXCEPT !.returned = plugins]
    /\ UNCHANGED <<mode, enforce_uniqueness, entry_points, environ,
                   default_modules, env_modules, excluded_modules,
                   custom_modules, todo, all_plugins, all_aliases,
                   nregister, nchanges>>
    /\ UNCHANGED NotRegistry

\* What every setter does besides setting its attribute
Changed ==
    /\ rpc = "idle"
    /\ nchanges < MaxChanges
    /\ nchanges' = nchanges + 1
    /\ stored' = Cleared
    /\ nregister' = [g \in Groups |-> 0]
    /\ rcall' = NoCall
    /\ UNCHANGED <<mode, enforce_uniqueness, entry_points, environ,
                   all_plugins, all_aliases, rpc, todo>>
    /\ UNCHANGED NotRegistry

\* default_modules = modules, lines 152-171
SetDefaultModules ==
    /\ default_modules' \in {<<ModR>>, <<ModP>>}
    /\ Changed
    /\ UNCHANGED <<env_modules, excluded_modules, custom_modules>>

\* excluded_modules = modules, lines 183-200
SetExcludedModules ==
    /\ excluded_modules' \in {<<NoModule>>, <<ModP>>}
    /\ Changed
    /\ UNCHANGED <<default_modules, env_modules, custom_modules>>

\* env_modules = modules, lines 212-221
SetEnvModules ==
    /\ env_modules' \in BOOLEAN
    /\ Changed
    /\ UNCHANGED <<default_modules, excluded_modules, custom_modules>>

\* custom_modules = modules, lines 233-242
SetCustomModules ==
    /\ custom_modules' \in {<<>>, <<ModP>>}
    /\ Changed
    /\ UNCHANGED <<default_modules, env_modules, excluded_modules>>

\* ---------------------------------------------------- ClassListerRegistry
\* src/seppl/_class_registry.py

\* The class listers that can be named: two that resolve to a function,
\* one whose module cannot be imported, and the empty name the setters make
\* of None.
Listers == {"l1", "l2", "l3"}

NoLister == ""

\* get_class_lister, lines 20-48, raises for the third
Resolves(l) == l \in {"l1", "l2"}

\* func()[c]: the modules a lister names for the superclass; "mx" cannot
\* be imported
ListedModules(l) ==
    CASE l = "l1" -> <<"m1", "mx">>
      [] l = "l2" -> <<"m1", "m2">>
      [] OTHER -> <<>>

Imports(mod) == mod # "mx"

\* dir(module): the subclasses of the superclass in a module
SubClasses(mod) ==
    CASE mod = "m1" -> <<"K1", "KFails">>
      [] mod = "m2" -> <<"K2", "KNotImplemented">>
      [] OTHER -> <<>>

\* att(): what the constructor of a class does
Instantiate(k) ==
    CASE k = "KFails" -> "Exception"
      [] k = "KNotImplemented" -> "NotImplementedError"
      [] OTHER -> "ok"

Listed(k) == Instantiate(k) # "Exception"

\* _determine_sub_classes, lines 275-311: nothing for a module that cannot
\* be imported; a class is left out when its constructor raises anything
\* but NotImplementedError
determine_sub_classes(mod) ==
    IF Imports(mod) THEN Elements(SelectSeq(SubClasses(mod), Listed)) ELSE {}

\* lines 352-357: the classes of the modules of one lister
FromLister(l) ==
    UNION {determine_sub_classes(ListedModules(l)[k]) :
               k \in 1..Len(ListedModules(l))}

\* lines 330-350: the listers the loop passes over: the empty name, one
\* that get_class_lister raises for, one of excluded_class_listers
Skip(l) ==
    l = NoLister \/ ~Resolves(l) \/ l \in Elements(excluded_class_listers)

\* _determine_from_class_listers, lines 313-359
determine_from_class_listers(class_listers) ==
    UNION {IF Skip(class_listers[k]) THEN {} ELSE FromLister(class_listers[k]) :
               k \in 1..Len(class_listers)}

\* _determine_from_entry_points, lines 361-381
determine_from_entry_points == determine_from_class_listers(lister_entry_points)

\* lines 244-259, with no custom class listers and no environment variable
\* for the class listers
actual_fallback_class_listers == default_class_listers

\* lines 261-273: the value of the environment variable, if it is set
actual_excluded_class_listers ==
    IF Len(environ_excluded) > 0 THEN environ_excluded
    ELSE excluded_class_listers

\* lines 426-429
Subtract(all, excluded) == all \ excluded

\* _initialize, lines 402-430; with no custom class listers and no
\* environment variable for the class listers the fallback is used when
\* the entry points gave no class
initialize ==
    LET entry_point_classes == determine_from_entry_points
        all_classes ==
            IF entry_point_classes = {}
            THEN determine_from_class_listers(actual_fallback_class_listers)
            ELSE entry_point_classes
        excluded_classes ==
            determine_from_class_listers(actual_excluded_class_listers)
    IN  Subtract(all_classes, excluded_classes)

Instantiated_Any(k) == TRUE

\* plugins(), lines 450-462: the classes whose constructor returns
Instantiated(k) == Instantiate(k) = "ok"

ListerLists(n) ==
    {<<NoLister>>} \cup UNION {[1..k -> Listers] : k \in 1..n}

\* __init__, lines 56-81, in some environment
InitClassListers ==
    /\ default_class_listers \in ListerLists(MaxListers)
    /\ excluded_class_listers \in ListerLists(1)
    /\ environ_excluded \in {<<>>} \cup [1..1 -> Listers]
    /\ lister_entry_points \in {<<>>} \cup [1..1 -> Listers]
    /\ classes = [present |-> FALSE, names |-> {}]
    /\ ccall = [called |-> FALSE, fail_if_empty |-> FALSE, raised |-> FALSE,
                result |-> {}]

\* No class lister registry has been made.
NoClassListers ==
    /\ default_class_listers = <<NoLister>>
    /\ excluded_class_listers = <<NoLister>>
    /\ environ_excluded = <<>>
    /\ lister_entry_points = <<>>
    /\ classes = [present |-> FALSE, names |-> {}]
    /\ ccall = [called |-> FALSE, fail_if_empty |-> FALSE, raised |-> FALSE,
                result |-> {}]

\* plugins(c, fail_if_empty), lines 433-465
ClassPlugins(fail_if_empty) ==
    /\ LET names == IF classes.present THEN classes.names ELSE initialize
           found == {k \in names : Instantiated(k)}
       IN  /\ classes' = [present |-> TRUE, names |-> names]
           /\ ccall' = [called |-> TRUE, fail_if_empty |-> fail_if_empty,
                        raised |-> fail_if_empty /\ found = {},
                        result |-> found]
    /\ UNCHANGED <<default_class_listers, excluded_class_listers,
                   environ_excluded, lister_entry_points>>
    /\ UNCHANGED NotClassListers

\* -------------------------------------------------- check_compatibility()
\* src/seppl/_plugin.py, lines 301-342

\* match_all, the class that always matches
AnyData == "AnyData"

\* The data classes: Sub is a subclass of Base
DataClasses == {AnyData, "Base", "Sub", "Other"}

\* issubclass(class1, class2)
issubclass(class1, class2) ==
    class1 = class2 \/ (class1 = "Sub" /\ class2 = "Base")

\* No class: what stands for generates() or accepts() of a plugin that has
\* no such method
NoClasses == {}

\* A plugin: whether it is an OutputProducer and what its generates()
\* returns, whether it is an InputConsumer and what its accepts() returns
Stages ==
    {p \in [producer : BOOLEAN, generates : {{c} : c \in DataClasses}
                                              \cup {NoClasses},
            consumer : BOOLEAN, accepts : {{c} : c \in DataClasses}
                                            \cup {NoClasses}] :
        /\ p.producer <=> p.generates # NoClasses
        /\ p.consumer <=> p.accepts # NoClasses}

\* No exception
NoError == [index |-> -1, kind |-> "none"]

\* lines 327-337
compatible(classes1, classes2) ==
    \E class1 \in classes1 :
        \/ class1 \in classes2
        \/ \E class2 \in classes2 : issubclass(class1, class2)

\* check_compatibility has been called.
InitCheck ==
    /\ pipeline \in UNION {[1..n -> Stages] : n \in 0..MaxPlugins}
    /\ cpc = "for" /\ ci = 0
    /\ cerror = NoError

\* check_compatibility is not running.
NoCheck ==
    /\ pipeline = <<>>
    /\ cpc = "off" /\ ci = 0
    /\ cerror = NoError

\* One iteration of the loop, lines 313-342: the exception names #i when
\* plugin1 is no OutputProducer, #i+1 when plugin2 is no InputConsumer and
\* both when their classes do not match
Check_For ==
    /\ cpc = "for"
    /\ ci < Len(pipeline) - 1
    /\ LET plugin1 == pipeline[ci + 1]
           plugin2 == pipeline[ci + 2]
           classes1 == plugin1.generates
           classes2 == plugin2.accepts
       IN  IF ~plugin1.producer
           THEN /\ cpc' = "raised"
                /\ cerror' = [index |-> ci, kind |-> "OutputProducer"]
           ELSE IF ~plugin2.consumer
           THEN /\ cpc' = "raised"
                /\ cerror' = [index |-> ci + 1, kind |-> "InputConsumer"]
           ELSE IF AnyData \in classes1 \/ AnyData \in classes2
           THEN /\ cpc' = "returned"
                /\ UNCHANGED cerror
           ELSE IF compatible(classes1, classes2)
           THEN /\ cpc' = "for"
                /\ UNCHANGED cerror
           ELSE /\ cpc' = "raised"
                /\ cerror' = [index |-> ci, kind |-> "compatible"]
    /\ ci' = ci + 1
    /\ UNCHANGED pipeline
    /\ UNCHANGED NotCheck

\* There is no plugin, lines 310-311, or the loop is over
Check_Return ==
    /\ cpc = "for"
    /\ ci >= Len(pipeline) - 1
    /\ cpc' = "returned"
    /\ UNCHANGED <<pipeline, ci, cerror>>
    /\ UNCHANGED NotCheck

\* ------------------------------------------------------------ MultiFilter
\* src/seppl/io/_filter.py, lines 372-525: a pipeline that holds a
\* MultiFilter and the pipeline with the MultiFilter's filters in its place.
\* Both are pulled until StopIteration, the second one first; no session
\* is stopped and the MultiFilter itself is not skipped.

\* The place of the MultiFilter in a chain of filters
MultiFilterRef == 0

\* How many values the code of a filter produces for an item: it depends on
\* the item alone, here on which output of the filter before it the item is
Fans == [1..MaxFan -> 0..MaxFan]

\* A filter: a StreamFilter or a plain BatchFilter, its skip option and its
\* code
MultiKinds ==
    {f \in [stream : BOOLEAN, skip : BOOLEAN, fan : Fans] :
        /\ ~f.stream => \A j \in 1..MaxFan : f.fan[j] <= 1
        /\ f.skip => \A j \in 1..MaxFan : f.fan[j] = 1}

\* _do_process / _do_process_stream of filter k for the item x, and what
\* process / process_stream make of it (lines 132-145, 197-207)
FilterOutputs(k, x) ==
    IF kinds[k].skip THEN <<x>>
    ELSE [j \in 1..kinds[k].fan[x[Len(x)]] |-> Append(x, j)]

\* FilterPipelineIterator.__init__, lines 242-262
NewIterator(x, chain) ==
    [data |-> x, chain |-> chain, finished |-> FALSE,
     pending_filters |-> <<>>, first |-> TRUE,
     pc |-> "idle", i |-> 0, output |-> None,
     result |-> "none", value |-> None]

\* raise StopIteration()
It_Stop(it) ==
    [it EXCEPT !.pc = "idle", !.i = 0, !.output = None,
               !.result = "StopIteration", !.value = None]

\* return v
It_Return(it, v) ==
    [it EXCEPT !.pc = "idle", !.i = 0, !.output = None,
               !.result = "value", !.value = v]

\* __next__ up to the while loop, lines 279-288
It_Entry(it) ==
    IF it.finished THEN It_Stop(it)
    ELSE IF it.first /\ Len(it.chain) = 0
         THEN It_Return([it EXCEPT !.first = FALSE, !.finished = TRUE],
                        it.data)
         ELSE [it EXCEPT !.pc = "while"]

\* The head of the while loop and the set-up of a pass, lines 290-305
It_While(it) ==
    IF it.finished THEN It_Stop(it)
    ELSE [it EXCEPT
             !.pc = "for",
             !.i = IF Len(it.pending_filters) > 0
                   THEN it.pending_filters[Len(it.pending_filters)]
                   ELSE 1,
             !.output = IF it.first THEN it.data ELSE None,
             !.first = FALSE]

\* break, or the range is used up: lines 347-348
It_EndPass(it) ==
    [it EXCEPT !.finished = (Len(it.pending_filters) = 0),
               !.pc = "while", !.i = 0, !.output = None]

\* if len(self.pending_filters) > 0: self.pending_filters.pop()
It_Popped(it) ==
    IF Len(it.pending_filters) > 0
    THEN [it EXCEPT !.pending_filters = SubSeq(@, 1, Len(@) - 1)]
    ELSE it

\* if curr.has_output(): self.pending_filters.append(curr)
It_Repend(it, buffer) ==
    IF Len(buffer) > 0
    THEN [it EXCEPT !.pending_filters = Append(@, it.i)]
    ELSE it

\* Lines 320-324: the end of a round that took out from a buffer
It_Drained(it, out) ==
    IF it.i = Len(it.chain) /\ out # None
    THEN It_Return(it, out)
    ELSE [it EXCEPT !.i = @ + 1, !.output = out]

\* Lines 339-345: the end of a round that gave the filter an item
It_Applied(it, out) ==
    IF out = None THEN It_EndPass(it)
    ELSE IF it.i = Len(it.chain) THEN It_Return(it, out)
    ELSE [it EXCEPT !.i = @ + 1, !.output = out]

\* One round of the for loop at a filter other than the MultiFilter, lines
\* 307-345, with the buffers b of the filters
It_For(it, b) ==
    IF it.i > Len(it.chain)
    THEN [it |-> It_EndPass(it), bufs |-> b]
    ELSE LET k == it.chain[it.i]
         IN  IF it.output = None
             THEN IF kinds[k].stream /\ Len(b[k]) > 0
                  THEN [it |-> It_Drained(
                                   It_Repend(It_Popped(it), Tail(b[k])),
                                   Head(b[k])),
                        bufs |-> [b EXCEPT ![k] = Tail(@)]]
                  ELSE [it |-> It_EndPass(it), bufs |-> b]
             ELSE LET outs == FilterOutputs(k, it.output)
                      out == IF Len(outs) > 0 THEN Head(outs) ELSE None
                      rest == IF Len(outs) > 0 THEN Tail(outs) ELSE <<>>
                  IN  IF kinds[k].stream
                      THEN [it |-> It_Applied(It_Repend(it, rest), out),
                            bufs |-> [b EXCEPT ![k] = rest]]
                      ELSE [it |-> It_Applied(it, out), bufs |-> b]

\* One step of __next__ of an iterator that is inside the call
It_Step(it, b) ==
    IF it.pc = "call" THEN [it |-> It_Entry(it), bufs |-> b]
    ELSE IF it.pc = "while" THEN [it |-> It_While(it), bufs |-> b]
    ELSE It_For(it, b)

append_next_Only(buffer, res, v) ==
    IF res = "value" THEN <<v>> ELSE buffer

\* MultiFilter.has_output, lines 502-506: the next value of the iterator,
\* if there is one, is put at the end of _stream_output
append_next(buffer, res, v) ==
    IF res = "value" THEN Append(buffer, v) ELSE buffer

\* The pipelines are still to be made.
NoMulti ==
    /\ kinds = <<>>
    /\ its = [id \in {"flat", "outer", "inner"} |-> NewIterator(None, <<>>)]
    /\ bufs = <<>>
    /\ miterator = FALSE
    /\ mpc = "none"
    /\ pulled = [id \in {"flat", "outer"} |-> <<>>]
    /\ phase = "off"

\* The filters are made and initialized, and the pipeline of the filters
\* themselves is made for the input.
InitMulti ==
    /\ kinds \in UNION {[1..n -> MultiKinds] : n \in 0..MaxInlined}
    /\ its = [id \in {"flat", "outer", "inner"} |->
                 IF id = "flat"
                 THEN NewIterator(Input, [k \in 1..Len(kinds) |-> k])
                 ELSE NewIterator(None, <<>>)]
    /\ bufs = [k \in 0..Len(kinds) |-> <<>>]
    /\ miterator = FALSE
    /\ mpc = "none"
    /\ pulled = [id \in {"flat", "outer"} |-> <<>>]
    /\ phase = "flat"

\* The pipeline that is being pulled from
Caller == IF phase = "flat" THEN "flat" ELSE "outer"

\* What the caller of next() has got so far
Yielded(id, it) ==
    IF it.pc = "idle" /\ it.result = "value"
    THEN [pulled EXCEPT ![id] = Append(@, it.value)]
    ELSE pulled

\* filter_data, lines 353-369: the caller asks for the next value
Multi_Pull ==
    /\ phase \in {"flat", "nested"}
    /\ its[Caller].pc = "idle"
    /\ its[Caller].result # "StopIteration"
    /\ its' = [its EXCEPT ![Caller].pc = "call"]
    /\ UNCHANGED <<kinds, bufs, miterator, mpc, pulled, phase>>
    /\ UNCHANGED NotMulti

\* The pipeline of the filters themselves is exhausted: filters lo+1..hi are
\* put into a MultiFilter, everything is initialized again (line 185) and
\* the pipeline with the MultiFilter in their place is made for the input
Multi_Nest(lo, hi) ==
    /\ phase = "flat"
    /\ its["flat"].pc = "idle"
    /\ its["flat"].result = "StopIteration"
    /\ phase' = "nested"
    /\ its' = [its EXCEPT
                  !["outer"] = NewIterator(Input,
                                   [k \in 1..lo |-> k]
                                   \o <<MultiFilterRef>>
                                   \o [k \in 1..(Len(kinds) - hi) |-> hi + k]),
                  !["inner"] = NewIterator(None,
                                   [k \in 1..(hi - lo) |-> lo + k])]
    /\ bufs' = [k \in 0..Len(kinds) |-> <<>>]
    /\ UNCHANGED <<kinds, miterator, mpc, pulled>>
    /\ UNCHANGED NotMulti

\* The pipeline with the MultiFilter is exhausted
Multi_Done ==
    /\ phase = "nested"
    /\ its["outer"].pc = "idle"
    /\ its["outer"].result = "StopIteration"
    /\ phase' = "done"
    /\ UNCHANGED <<kinds, its, bufs, miterator, mpc, pulled>>
    /\ UNCHANGED NotMulti

\* Whether the pipeline pulled from is at the MultiFilter
AtMultiFilter(it) ==
    /\ it.pc = "for"
    /\ it.i <= Len(it.chain)
    /\ it.chain[it.i] = MultiFilterRef

\* One step of __next__ of the pipeline pulled from, at another filter
\* than the MultiFilter
Multi_Step ==
    /\ phase \in {"flat", "nested"}
    /\ its[Caller].pc \in {"call", "while", "for"}
    /\ ~AtMultiFilter(its[Caller])
    /\ \E s \in {It_Step(its[Caller], bufs)} :
           /\ its' = [its EXCEPT ![Caller] = s.it]
           /\ bufs' = s.bufs
           /\ pulled' = Yielded(Caller, s.it)
    /\ UNCHANGED <<kinds, miterator, mpc, phase>>
    /\ UNCHANGED NotMulti

\* One step of __next__ of the MultiFilter's iterator, called by has_output
Inner_Step ==
    /\ phase = "nested"
    /\ its["outer"].pc = "wait"
    /\ its["inner"].pc \in {"call", "while", "for"}
    /\ \E s \in {It_Step(its["inner"], bufs)} :
           /\ its' = [its EXCEPT !["inner"] = s.it]
           /\ bufs' = s.bufs
    /\ UNCHANGED <<kinds, miterator, mpc, pulled, phase>>
    /\ UNCHANGED NotMulti

\* The MultiFilter is given an item, line 328: process_stream empties
\* _stream_output and _do_process_stream makes the iterator (lines 203-207,
\* 486-492); has_output of line 329 then asks it for its next value
Multi_ProcessStream ==
    /\ phase = "nested"
    /\ AtMultiFilter(its["outer"])
    /\ its["outer"].output # None
    /\ bufs' = [bufs EXCEPT ![MultiFilterRef] = <<>>]
    /\ miterator' = TRUE
    /\ its' = [its EXCEPT
                  !["outer"].pc = "wait",
                  !["inner"] = [NewIterator(its["outer"].output,
                                            its["inner"].chain)
                                   EXCEPT !.pc = "call"]]
    /\ mpc' = "processed"
    /\ UNCHANGED <<kinds, pulled, phase>>
    /\ UNCHANGED NotMulti

\* The MultiFilter is given nothing, line 314: has_output answers False
\* without an iterator (lines 500-501) and asks the iterator otherwise
Multi_HasOutput ==
    /\ phase = "nested"
    /\ AtMultiFilter(its["outer"])
    /\ its["outer"].output = None
    /\ IF miterator
       THEN /\ its' = [its EXCEPT !["outer"].pc = "wait",
                                  !["inner"].pc = "call"]
            /\ mpc' = "pending"
       ELSE /\ its' = [its EXCEPT !["outer"] = It_EndPass(@)]
            /\ UNCHANGED mpc
    /\ UNCHANGED <<kinds, bufs, miterator, pulled, phase>>
    /\ UNCHANGED NotMulti

\* has_output has its answer from the iterator, lines 502-506, and the
\* round of the pipeline goes on from where it was called:
\*   "processed" line 329, then output() and has_output of line 334;
\*   "more"      line 334, then the end of the round;
\*   "pending"   line 314, then pop(), output() and has_output of line 318;
\*   "again"     line 318, then the end of the round.
Multi_Returned ==
    /\ phase = "nested"
    /\ its["outer"].pc = "wait"
    /\ its["inner"].pc = "idle"
    /\ \E buffer \in {append_next(bufs[MultiFilterRef],
                                  its["inner"].result, its["inner"].value)} :
       \E running \in {[its["outer"] EXCEPT !.pc = "for"]} :
          CASE mpc = "processed" ->
                  /\ bufs' = [bufs EXCEPT ![MultiFilterRef] =
                                 IF Len(buffer) > 0 THEN Tail(buffer)
                                 ELSE buffer]
                  /\ its' = [its EXCEPT
                                !["outer"].output =
                                    IF Len(buffer) > 0 THEN Head(buffer)
                                    ELSE None,
                                !["inner"].pc = "call"]
                  /\ mpc' = "more"
                  /\ UNCHANGED pulled
            [] mpc = "more" ->
                  /\ bufs' = [bufs EXCEPT ![MultiFilterRef] = buffer]
                  /\ \E it \in {It_Applied(It_Repend(running, buffer),
                                           running.output)} :
                        /\ its' = [its EXCEPT !["outer"] = it]
                        /\ pulled' = Yielded("outer", it)
                  /\ mpc' = "none"
            [] mpc = "pending" /\ Len(buffer) > 0 ->
                  /\ bufs' = [bufs EXCEPT ![MultiFilterRef] = Tail(buffer)]
                  /\ its' = [its EXCEPT
                                !["outer"] =
                                    [It_Popped(@) EXCEPT
                                        !.output = Head(buffer)],
                                !["inner"].pc = "call"]
                  /\ mpc' = "again"
                  /\ UNCHANGED pulled
            [] mpc = "pending" /\ Len(buffer) = 0 ->
                  /\ bufs' = [bufs EXCEPT ![MultiFilterRef] = buffer]
                  /\ its' = [its EXCEPT !["outer"] = It_EndPass(running)]
                  /\ mpc' = "none"
                  /\ UNCHANGED pulled
            [] mpc = "again" ->
                  /\ bufs' = [bufs EXCEPT ![MultiFilterRef] = buffer]
                  /\ \E it \in {It_Drained(It_Repend(running, buffer),
                                           running.output)} :
                        /\ its' = [its EXCEPT !["outer"] = it]
                        /\ pulled' = Yielded("outer", it)
                  /\ mpc' = "none"
    /\ UNCHANGED <<kinds, miterator, phase>>
    /\ UNCHANGED NotMulti

\* ---------------------------------------------------------------- Splitter
\* src/seppl/io/_split.py, lines 9-131

\* The ratios a list of split ratios is made of
Ratios == {-50, 0, 20, 25, 40, 50, 60, 75, 80, 100, 150}

RatioLists == UNION {[1..n -> Ratios] : n \in 1..MaxSplits}

\* The lists of split names, some with a name twice
NameLists ==
    {<<"a">>, <<"a", "b">>, <<"a", "a">>, <<"a", "b", "c">>,
     <<"a", "b", "a">>}

\* The items next() is given: None, a string split_group does not match,
\* and strings whose group it captures
NoItem == "None"
Unmatched == "x"
Keys == {"k1", "k2"}

\* Without a split group next() does not look at the item
Items == IF split_group THEN {NoItem, Unmatched} \cup Keys ELSE {NoItem}

\* No split: what next() returns when no interval holds the counter
NoSplitName == "None"

RECURSIVE sum(_)
\* sum(self.split_ratios)
sum(values) ==
    IF values = <<>> THEN 0 ELSE Head(values) + sum(Tail(values))

abs(a) == IF a < 0 THEN -a ELSE a

RECURSIVE math_gcd(_, _)
\* math.gcd: the greatest common divisor of the absolute values
math_gcd(a, b) ==
    IF b = 0 THEN abs(a) ELSE math_gcd(abs(b), abs(a) % abs(b))

RECURSIVE gcd_loop(_, _)
\* The loop of gcd, lines 22-25
gcd_loop(res, values) ==
    IF values = <<>> THEN res
    ELSE gcd_loop(math_gcd(res, Head(values)), Tail(values))

\* gcd, lines 9-25; line 19 raises for less than two numbers
gcd_raises(values) == Len(values) < 2
gcd(values) == gcd_loop(Head(values), Tail(values))

\* Whether initialize raises, lines 56-66
initialize_raises ==
    \/ Len(split_ratios) # Len(split_names)
    \/ sum(split_ratios) # 100
    \/ gcd_raises(split_ratios)

\* The schedule initialize makes, lines 67-69: schedule[k + 1] here is
\* _schedule[k]
Schedule(ratios) ==
    [k \in 1..(Len(ratios) + 1) |->
        sum(SubSeq(ratios, 1, k - 1)) \div gcd(ratios)]

\* dict()
NoStats == [s \in {} |-> 0]

\* The split whose interval holds the counter, lines 100-103: the last one
\* if there are several
Selected ==
    {k \in 1..Len(split_names) :
        counter >= schedule[k] /\ counter < schedule[k + 1]}
SelectedIndex ==
    IF Selected = {} THEN 0
    ELSE CHOOSE k \in Selected : \A j \in Selected : j <= k

\* The counter after next(), lines 106-108
advanced_Free == counter + 1

advanced ==
    IF counter + 1 = schedule[Len(schedule)] THEN 0 ELSE counter + 1

\* The stats after next() returned split, lines 111-113
counted(split) ==
    [s \in DOMAIN stats \cup {split} |->
        IF s = split
        THEN (IF s \in DOMAIN stats THEN stats[s] ELSE 0) + 1
        ELSE stats[s]]

group_of_Unkeyed(item_) == NoItem

\* The group of an item, lines 92-96
group_of(item_) ==
    IF split_group /\ item_ \in Keys THEN item_ ELSE NoItem

\* No Splitter is in use.
NoSplitter ==
    /\ split_ratios = <<>> /\ split_names = <<>> /\ split_group = FALSE
    /\ schedule = <<>> /\ counter = 0 /\ stats = NoStats
    /\ split_groups = NoStats
    /\ splitter = "off"
    /\ calls = <<>>
    /\ nresets = 0

\* Splitter.__init__, lines 33-50
InitSplitter ==
    /\ split_ratios \in RatioLists
    /\ split_names \in NameLists
    /\ split_group \in BOOLEAN
    /\ schedule = <<>> /\ counter = 0 /\ stats = NoStats
    /\ split_groups = NoStats
    /\ splitter = "new"
    /\ calls = <<>>
    /\ nresets = 0

\* initialize(), lines 52-72
Splitter_Initialize ==
    /\ splitter = "new"
    /\ IF initialize_raises
       THEN /\ splitter' = "raised"
            /\ UNCHANGED schedule
       ELSE /\ splitter' = "initialized"
            /\ schedule' = Schedule(split_ratios)
    /\ counter' = 0
    /\ stats' = NoStats
    /\ split_groups' = NoStats
    /\ UNCHANGED <<split_ratios, split_names, split_group, calls, nresets>>
    /\ UNCHANGED NotSplitter

\* reset(), lines 74-80
Splitter_Reset ==
    /\ splitter = "initialized"
    /\ nresets < MaxResets
    /\ nresets' = nresets + 1
    /\ counter' = 0
    /\ stats' = NoStats
    /\ split_groups' = NoStats
    /\ calls' = <<>>
    /\ UNCHANGED <<split_ratios, split_names, split_group, schedule,
                   splitter>>
    /\ UNCHANGED NotSplitter

\* next(item), lines 82-119; calls is the history of the calls since the
\* last reset: the item, the split returned, its index, whether it came
\* from _groups, and the counter before and after
Splitter_Next(item_) ==
    /\ splitter = "initialized"
    /\ Len(calls) < (IF split_group THEN MaxKeyed ELSE MaxCalls)
    /\ LET group == group_of(item_)
           split == IF SelectedIndex = 0 THEN NoSplitName
                    ELSE split_names[SelectedIndex]
       IN  IF group # NoItem /\ group \in DOMAIN split_groups
           THEN /\ calls' = Append(calls,
                                [item |-> item_, split |-> split_groups[group],
                                 index |-> 0, reused |-> TRUE,
                                 before |-> counter, after |-> counter])
                /\ UNCHANGED <<counter, stats, split_groups>>
           ELSE /\ counter' = advanced
                /\ stats' = counted(split)
                /\ split_groups' =
                       IF group # NoItem
                       THEN [g \in DOMAIN split_groups \cup {group} |->
                                IF g = group THEN split ELSE split_groups[g]]
                       ELSE split_groups
                /\ calls' = Append(calls,
                                [item |-> item_, split |-> split,
                                 index |-> SelectedIndex, reused |-> FALSE,
                                 before |-> counter, after |-> advanced])
    /\ UNCHANGED <<split_ratios, split_names, split_group, schedule,
                   splitter, nresets>>
    /\ UNCHANGED NotSplitter

\* --------------------------------------------------- generate_entry_points
\* src/seppl/_entry_points.py, lines 8-64

\* The entry point groups a mapping may have
EntryGroups == {"readers", "filters", "writers"}

\* The plugins: name(), __module__ as its dotted parts, the name of the
\* class, and whether the module without its last part can be imported
EntryPlugins ==
    {[name |-> "a", module |-> <<"pkg", "_impl">>, class |-> "A",
      parent |-> TRUE],
     [name |-> "b", module |-> <<"pkg", "_gone">>, class |-> "B",
      parent |-> FALSE],
     [name |-> "c", module |-> <<"pkg", "mod">>, class |-> "C",
      parent |-> TRUE]}

\* parts[-1].startswith("_")
startswith_(part) == part \in {"_impl", "_gone"}

\* _to_entry_point, lines 17-31: "name=module:Class", with a private last
\* module left out when what remains can be imported
to_entry_point(plugin) ==
    LET parts == plugin.module
        hidden == startswith_(parts[Len(parts)]) /\ plugin.parent
    IN  [name |-> plugin.name,
         module |-> IF hidden THEN SubSeq(parts, 1, Len(parts) - 1)
                    ELSE parts,
         class |-> plugin.class]

\* _to_entry_points, lines 43-46
to_entry_points(plugins) ==
    [j \in 1..Len(plugins) |-> to_entry_point(plugins[j])]

\* The mappings from group to plugin list
PluginLists ==
    UNION {[gs -> UNION {[1..n -> EntryPlugins] : n \in 0..MaxListed}] :
              gs \in SUBSET EntryGroups}

\* The keys of a dict in their order
KeysOf(d) ==
    [j \in 1..Cardinality(DOMAIN d) |->
        IF j = 1 /\ "readers" \in DOMAIN d THEN "readers"
        ELSE IF j = Cardinality(DOMAIN d) /\ "writers" \in DOMAIN d
             THEN "writers"
             ELSE IF "filters" \in DOMAIN d THEN "filters"
                  ELSE CHOOSE g \in DOMAIN d : TRUE]

\* generate_entry_points is not in use.
NoEntryPoints ==
    /\ plugin_lists = <<>> /\ given_lists = <<>>
    /\ gen_keys = <<>> /\ gen_result = <<>>
    /\ gpc = "off"

\* generate_entry_points has been called, lines 57-58
InitEntryPoints ==
    /\ plugin_lists \in PluginLists
    /\ given_lists = plugin_lists
    /\ gen_keys = KeysOf(plugin_lists)
    /\ gen_result = <<>>
    /\ gpc = "for"

\* One round of the loop, lines 59-62: an empty group is taken out of the
\* argument, and the argument is then read for the group
Generate_For ==
    /\ gpc = "for"
    /\ gen_keys # <<>>
    /\ LET k == Head(gen_keys)
           popped == IF Len(plugin_lists[k]) = 0
                     THEN [g \in DOMAIN plugin_lists \ {k} |-> plugin_lists[g]]
                     ELSE plugin_lists
       IN  /\ plugin_lists' = popped
           /\ IF k \in DOMAIN popped
              THEN /\ gen_result' =
                          [g \in DOMAIN gen_result \cup {k} |->
                              IF g = k THEN to_entry_points(popped[k])
                              ELSE gen_result[g]]
                   /\ gen_keys' = Tail(gen_keys)
                   /\ UNCHANGED gpc
              ELSE /\ gpc' = "KeyError"
                   /\ UNCHANGED <<gen_result, gen_keys>>
    /\ UNCHANGED given_lists
    /\ UNCHANGED NotEntryPoints

\* The loop is over, line 64
Generate_Return ==
    /\ gpc = "for"
    /\ gen_keys = <<>>
    /\ gpc' = "returned"
    /\ UNCHANGED <<plugin_lists, given_lists, gen_keys, gen_result>>
    /\ UNCHANGED NotEntryPoints

\* Nothing of the above is in use.
NoMore ==
    /\ NoMulti
    /\ NoSplitter
    /\ NoEntryPoints

\* No other part of the library is in use.
NoLib ==
    /\ NoObjects
    /\ NoRegistry
    /\ NoClassListers
    /\ NoCheck
    /\ NoMore

InitHistory ==
    /\ dfs = <<[lvl |-> 1, item |-> data]>>
    /\ conform = TRUE
    /\ last_call = [filter |-> 0, item |-> None]
    /\ nyielded = 0
    /\ stop_at_entry = FALSE
    /\ call_at_entry = last_call

\* An iterator has been made and is pulled from.
Init ==
    /\ InitIterator
    /\ stopped = FALSE
    /\ InitHistory
    /\ NoExecute
    /\ NoSplit
    /\ NoLib

Next ==
    \/ Next_Entry
    \/ Next_While
    \/ Next_For
    \/ SetStopped

Spec == Init /\ [][Next]_vars

\* execute() has been called; no iterator of this model is in use.
InitExecution ==
    /\ InitExecute
    /\ stopped = FALSE
    /\ data = Input /\ filters = <<>> /\ session = TRUE
    /\ finished = FALSE /\ pending_filters = <<>> /\ first = TRUE
    /\ stream_output = <<>>
    /\ pc = "off" /\ i = 0 /\ output = None
    /\ result = "none" /\ value = None
    /\ InitHistory
    /\ NoSplit
    /\ NoLib

NextExecution ==
    \/ Initialize
    \/ SelectMode
    \/ S_Read
    \/ S_Item
    \/ S_Pull
    \/ S_Filtered
    \/ B_Read
    \/ B_Item
    \/ B_Filter
    \/ B_Pull
    \/ B_Filtered
    \/ B_Write
    \/ B_WriteStream
    \/ Return_
    \/ Finalize
    \/ SetStopped

SpecExecution == InitExecution /\ [][NextExecution]_vars

\* execute() is called with a session that has counted before and with
\* any update interval; the reader is finite and only the filters are
\* Initializable.
CountingArguments ==
    {a \in ArgumentsOver(0..MaxCount, 1..MaxInterval) :
        ~a.reader_initializable /\ ~a.writer_initializable /\ ~a.is_infinite}

InitCounting ==
    /\ StartExecute(CountingArguments)
    /\ stopped = FALSE
    /\ data = Input /\ filters = <<>> /\ session = TRUE
    /\ finished = FALSE /\ pending_filters = <<>> /\ first = TRUE
    /\ stream_output = <<>>
    /\ pc = "off" /\ i = 0 /\ output = None
    /\ result = "none" /\ value = None
    /\ InitHistory
    /\ NoSplit
    /\ NoLib

SpecCounting == InitCounting /\ [][NextExecution]_vars

\* split_args has been called.
InitArgs ==
    /\ InitSplit
    /\ Idle
    /\ InitHistory
    /\ NoLib

NextArgs ==
    \/ Split_For
    \/ Split_Return

SpecArgs == InitArgs /\ [][NextArgs]_vars

\* args_to_objects has been called.
InitObjectsOnly ==
    /\ InitObjects
    /\ NoMore
    /\ Idle
    /\ InitHistory
    /\ NoSplit
    /\ NoRegistry
    /\ NoClassListers
    /\ NoCheck

NextObjects ==
    \/ Objects_For
    \/ Objects_Parsed
    \/ Objects_While

SpecObjects == InitObjectsOnly /\ [][NextObjects]_vars

\* A registry has been made and configured, in some environment, and is
\* asked for the plugins of its groups.
InitRegistryOnly ==
    /\ InitRegistry
    /\ NoMore
    /\ \E one \in EntryLists(MaxEntries), two \in EntryLists(1) :
          entry_points = [g \in Groups |-> IF g = "g1" THEN one ELSE two]
    /\ env_modules \in BOOLEAN
    /\ environ \in IF env_modules THEN {<<>>, <<ModPQ, DEFAULT>>}
                   ELSE {<<ModPQ, DEFAULT>>}
    /\ excluded_modules \in {<<NoModule>>, <<ModP>>}
    /\ custom_modules \in {<<>>, <<ModP>>}
    /\ Idle
    /\ InitHistory
    /\ NoSplit
    /\ NoObjects
    /\ NoClassListers
    /\ NoCheck

NextRegistry ==
    \/ \E group \in Groups : Plugins(group)
    \/ Register_Candidate
    \/ Register_Modules
    \/ Register_Store

SpecRegistry == InitRegistryOnly /\ [][NextRegistry]_vars

\* A registry has been made with its defaults and is reconfigured between
\* the calls of plugins().
InitReconfigure ==
    /\ InitRegistry
    /\ NoMore
    /\ \E one \in EntryLists(1), two \in EntryLists(1) :
          entry_points = [g \in Groups |-> IF g = "g1" THEN one ELSE two]
    /\ env_modules = FALSE
    /\ environ = <<ModPQ, DEFAULT>>
    /\ excluded_modules = <<NoModule>>
    /\ custom_modules = <<>>
    /\ Idle
    /\ InitHistory
    /\ NoSplit
    /\ NoObjects
    /\ NoClassListers
    /\ NoCheck

NextReconfigure ==
    \/ \E group \in Groups : Plugins(group)
    \/ Register_Candidate
    \/ Register_Modules
    \/ Register_Store
    \/ SetDefaultModules
    \/ SetExcludedModules
    \/ SetEnvModules
    \/ SetCustomModules

SpecReconfigure == InitReconfigure /\ [][NextReconfigure]_vars

\* A class lister registry has been made and is asked for the classes of a
\* superclass.
InitClassListersOnly ==
    /\ InitClassListers
    /\ NoMore
    /\ Idle
    /\ InitHistory
    /\ NoSplit
    /\ NoObjects
    /\ NoRegistry
    /\ NoCheck

NextClassListers ==
    \E fail_if_empty \in BOOLEAN : ClassPlugins(fail_if_empty)

SpecClassListers == InitClassListersOnly /\ [][NextClassListers]_vars

\* check_compatibility has been called.
InitCheckOnly ==
    /\ InitCheck
    /\ NoMore
    /\ Idle
    /\ InitHistory
    /\ NoSplit
    /\ NoObjects
    /\ NoRegistry
    /\ NoClassListers

NextCheck ==
    \/ Check_For
    \/ Check_Return

SpecCheck == InitCheckOnly /\ [][NextCheck]_vars

\* A pipeline and the same pipeline with some of its filters in a
\* MultiFilter; nothing else of this model is in use.
InitMultiOnly ==
    /\ InitMulti
    /\ NoSplitter
    /\ NoEntryPoints
    /\ Idle
    /\ InitHistory
    /\ NoSplit
    /\ NoObjects
    /\ NoRegistry
    /\ NoClassListers
    /\ NoCheck

NextMulti ==
    \/ Multi_Pull
    \/ Multi_Step
    \/ \E lo \in 0..Len(kinds) : \E hi \in lo..Len(kinds) : Multi_Nest(lo, hi)
    \/ Multi_ProcessStream
    \/ Multi_HasOutput
    \/ Inner_Step
    \/ Multi_Returned
    \/ Multi_Done

SpecMulti == InitMultiOnly /\ [][NextMulti]_vars

\* A Splitter is made, initialized and used; nothing else of this model is
\* in use.
InitSplitterOnly ==
    /\ InitSplitter
    /\ NoMulti
    /\ NoEntryPoints
    /\ Idle
    /\ InitHistory
    /\ NoSplit
    /\ NoObjects
    /\ NoRegistry
    /\ NoClassListers
    /\ NoCheck

NextSplitter ==
    \/ Splitter_Initialize
    \/ \E item_ \in Items : Splitter_Next(item_)
    \/ Splitter_Reset

SpecSplitter == InitSplitterOnly /\ [][NextSplitter]_vars

\* generate_entry_points is called; nothing else of this model is in use.
InitEntryPointsOnly ==
    /\ InitEntryPoints
    /\ NoMulti
    /\ NoSplitter
    /\ Idle
    /\ InitHistory
    /\ NoSplit
    /\ NoObjects
    /\ NoRegistry
    /\ NoClassListers
    /\ NoCheck

NextEntryPoints ==
    \/ Generate_For
    \/ Generate_Return

SpecEntryPoints == InitEntryPointsOnly /\ [][NextEntryPoints]_vars

\* The caller keeps pulling and every started pull runs on.
SpecFair ==
    Spec /\ WF_vars(Next_Entry) /\ WF_vars(Next_While) /\ WF_vars(Next_For)

\* ------------------------------------------------------------------ claims
Exhausted == pc = "idle" /\ result = "StopIteration"

AllPassThrough == \A k \in 1..Len(filters) : filters[k].skip

\* C1: for a chain of one or more filters the calls of the filters and the
\* values yielded follow the depth-first, left-to-right traversal of the
\* filters' outputs step by step, every yielded value is an output of the
\* last filter, and when the iterator signals exhaustion without a stop the
\* traversal is complete.
C1_DepthFirstComposition ==
    Len(filters) >= 1 =>
        /\ conform
        /\ (result = "value" /\ pc = "idle" =>
                /\ last_call.filter = Len(filters)
                /\ \/ value = last_call.item
                   \/ \E j \in 1..MaxOut : value = Append(last_call.item, j))
        /\ (Exhausted /\ ~stopped => dfs = <<>>)

C1_Witness ==
    /\ Exhausted /\ ~stopped /\ dfs = <<>> /\ conform
    /\ Len(filters) = 3 /\ nyielded = 2
    /\ last_call = [filter |-> 3, item |-> Append(Append(data, 2), 2)]

\* C2: over a chain of no filters or of pass-through filters only, with no
\* stop, the only value ever yielded is the input, it is yielded once, and
\* exhaustion is signalled only after it was yielded.
C2_PassThroughOnce ==
    AllPassThrough /\ ~stopped =>
        /\ (result = "value" => value = data /\ nyielded = 1)
        /\ (result = "StopIteration" => nyielded = 1)

C2_Witness ==
    /\ AllPassThrough /\ ~stopped /\ Len(filters) = 2
    /\ Exhausted /\ nyielded = 1 /\ value = None


\* The streaming filters before filter k that hold buffered values.
UpstreamBuffered(k) == {j \in 1..(k - 1) : has_output(j)}

Deepest(S) == CHOOSE j \in S : \A m \in S : m <= j

\* A step in which filter i is called and returns nothing while a streaming
\* filter before it holds buffered values.
DropStep ==
    /\ pc = "for" /\ pc' = "while"
    /\ last_call' # last_call
    /\ UpstreamBuffered(i) # {}

\* A filter has returned nothing while a streaming filter before it holds
\* buffered values: the state that a DropStep leads to.
Dropped ==
    /\ pc = "while" /\ last_call.filter >= 1
    /\ UpstreamBuffered(last_call.filter) # {}

\* C3: when a filter returns nothing for a value while a streaming filter
\* before it still holds buffered values, the iteration is not ended, no
\* exhaustion is signalled, the buffers before it are left as they are, and
\* the next call of the traversal is the next buffered value of the nearest
\* such filter given to the filter after it; from there on the whole of the
\* traversal is made in the end, unless the stop flag is set.
C3_DropKeepsUpstream ==
    /\ [][DropStep =>
            LET j == Deepest(UpstreamBuffered(i))
            IN  /\ ~finished' /\ Dropped'
                /\ result' = result
                /\ \A m \in 1..(i - 1) : stream_output'[m] = stream_output[m]
                /\ dfs' # <<>>
                /\ Head(dfs') = [lvl |-> j + 1, item |-> Head(stream_output[j])]
         ]_vars
    /\ Dropped ~> (stopped \/ (Exhausted /\ conform /\ dfs = <<>>))

\* A middle filter has just dropped a value and the filter before it holds
\* a buffered value, which the traversal visits next.
C3_Witness ==
    /\ pc = "while" /\ ~stopped /\ ~finished
    /\ Len(filters) = 3
    /\ last_call = [filter |-> 2, item |-> Append(data, 1)]
    /\ stream_output[1] = <<Append(data, 2)>>
    /\ Head(dfs) = [lvl |-> 2, item |-> Append(data, 2)]

\* A pull has come to its end.
PullDone == pc = "idle" /\ result # "none"

\* C4: for every chain length, a pull that begins with the stop flag set
\* yields nothing, signals exhaustion and calls no filter; and once the
\* stop flag is set during a pull no filter is called any more.
C4_StopAbortsPull ==
    /\ [](PullDone /\ stop_at_entry =>
            result = "StopIteration" /\ last_call = call_at_entry)
    /\ [][SessionStopped => last_call' = last_call]_vars

\* A buffer that holds values changes only by handing its first value to
\* the next filter in line or to the caller.
BufferStep(k) ==
    \/ stream_output'[k] = stream_output[k]
    \/ stream_output[k] = <<>>
    \/ /\ stream_output'[k] = Tail(stream_output[k])
       /\ \/ pc' = "for" /\ i' = k + 1 /\ output' = Head(stream_output[k])
          \/ pc' = "idle" /\ result' = "value" /\ k = Len(filters)
             /\ value' = Head(stream_output[k])

\* C5: while the stop flag is not set, exhaustion is never signalled with a
\* value left in the buffer of any streaming filter, and no buffered value
\* is thrown away: it leaves its buffer only to be passed to the next filter
\* or yielded.
C5_NoExhaustionWhileBuffered ==
    /\ [](Exhausted /\ ~stopped =>
            \A k \in 1..Len(filters) : stream_output[k] = <<>>)
    /\ [][~stopped => \A k \in 1..Len(filters) : BufferStep(k)]_vars

\* Exhaustion after a filter further down dropped a value of a fan-out and
\* a filter further up had produced nothing for another.
C5_Witness ==
    /\ Exhausted /\ ~stopped /\ Len(filters) = 3
    /\ IsStream(1) /\ IsStream(2) /\ ~filters[1].skip /\ ~filters[2].skip
    /\ last_call = [filter |-> 2, item |-> Append(data, 2)]
    /\ nyielded = 1

\* C6: repeated pulls signal exhaustion in the end, and once the iterator
\* has finished it stays finished: later pulls call no filter, yield no
\* value and can only signal exhaustion.
C6_ExhaustionAbsorbing ==
    /\ <>Exhausted
    /\ [][finished =>
            /\ finished'
            /\ last_call' = last_call
            /\ nyielded' = nyielded
            /\ (result' # result => result' = "StopIteration")]_vars
    /\ [][Exhausted /\ Exhausted' => UNCHANGED <<nyielded, last_call>>]_vars

\* Exhaustion was signalled a second time, after more than one value.
C6_Witness ==
    /\ Exhausted /\ finished /\ nyielded = 2 /\ Len(filters) = 3
    /\ stop_at_entry = FALSE /\ call_at_entry = last_call
    /\ last_call.filter = 3 /\ ~stopped


\* ------------------------------------------------------- claims on execute()
\* The stages in the order reader, filters, writer, and those of them that
\* have initialize() and finalize().
AllStages == [s \in 1..(WriterStage + 1) |-> s - 1]
InitializableStages == SelectSeq(AllStages, IsInitializable)
InitSucceeded(s) == s # init_failed

\* C7: in every run of execute(), also when the initialization of a later
\* stage fails, every stage whose initialize() succeeded has had finalize()
\* called exactly once, in order, when execute() returns.
C7_InitializedIsFinalized ==
    epc = "done" => finalize_log = SelectSeq(init_log, InitSucceeded)

\* C8: when the reader, a filter or the writer raises during stream or batch
\* processing, the error does not leave execute(), no read, filter or write
\* call follows it, and finalize() is then called on every stage that has
\* one, reader first, the filters in chain order, the writer last, each
\* exactly once.
C8_ProcessingErrorCaught ==
    /\ [](raised # "propagated")
    /\ [][raised # "caught" /\ raised' = "caught" =>
              finalize_log = <<>> /\ epc' = "finalize"]_vars
    /\ [][raised = "caught" =>
              /\ UNCHANGED procvars
              /\ raised' = raised
              /\ epc' \in {"finalize", "done"}]_vars
    /\ [](raised = "caught" /\ epc = "finalize" => ENABLED Finalize)
    /\ [](raised = "caught" /\ epc = "done" =>
              finalize_log = InitializableStages)

C8_Witness ==
    /\ epc = "done" /\ raised = "caught"
    /\ args.filters_ = 2 /\ batch_mode = "stream"
    /\ Len(writes) = 1 /\ nread = 1
    /\ finalize_log = <<0, 1, 2, 3>>

\* C9: the stages are initialized in the order reader, filters, writer; when
\* an initialize() fails it is the last one called (no retry, no later
\* stage), and the run makes no read, no filter and no write call: it is
\* over.  Processing only starts after every initialize() has succeeded.
C9_InitOrderAbortOnFailure ==
    /\ Len(init_log) <= Len(InitializableStages)
    /\ init_log = SubSeq(InitializableStages, 1, Len(init_log))
    /\ (init_failed # -1 =>
            /\ init_log # <<>> /\ init_log[Len(init_log)] = init_failed
            /\ epc = "done" /\ batch_mode = "unset"
            /\ count = 0 /\ nread = 0 /\ npull = 0 /\ writes = <<>>)
    /\ (epc \notin {"off", "initialize", "done"} =>
            init_failed = -1 /\ init_log = InitializableStages)

C9_Witness ==
    /\ epc = "done" /\ args.filters_ = 2 /\ args.writer_initializable
    /\ init_failed = 1 /\ init_log = <<0, 1>>
    /\ nread = 0 /\ writes = <<>>

StreamPcs == {"s_read", "s_item", "s_pull", "s_filtered"}
BatchPcs == {"b_read", "b_item", "b_filter", "b_pull", "b_filtered",
             "b_filter_end", "b_write_stream"}

\* C10: execute() runs the batch execution exactly when force_batch is set
\* or the writer is a BatchWriter, and the reader does not report itself as
\* infinite; in every other case it runs the stream execution.
C10_BatchIffRequestedAndFinite ==
    LET batch == /\ args.force_batch \/ args.writer = "BatchWriter"
                 /\ ~args.is_infinite
    IN  /\ epc \in BatchPcs => batch /\ batch_mode = "batch"
        /\ epc \in StreamPcs => ~batch /\ batch_mode = "stream"
        /\ batch_mode = "batch" => batch
        /\ batch_mode = "stream" => ~batch
        /\ epc = "return" => batch_mode # "unset"

C10_Witness ==
    /\ epc = "s_filtered" /\ batch_mode = "stream"
    /\ args.is_infinite /\ args.writer = "BatchWriter" /\ ~args.force_batch

\* C11: whenever batch mode was requested, by force_batch or by the writer
\* being a BatchWriter, and is refused because the reader reports itself as
\* infinite, execute() has logged the warning.
C11_WarnsWhenBatchRefused ==
    /\ batch_mode # "unset"
    /\ args.force_batch \/ args.writer = "BatchWriter"
    /\ args.is_infinite
    => batch_mode = "stream" /\ warned

\* C12: in stream and in batch execution, once the stop flag is set no
\* further call of the writer is made, no error leaves execute(), and a run
\* whose stages were all initialized still finalizes them.
C12_StopSkipsWrites ==
    /\ [][stopped => writes' = writes]_vars
    /\ [](stopped => raised # "propagated")
    /\ [](stopped /\ epc = "done" /\ init_failed = -1 =>
              finalize_log = InitializableStages)

\* The arguments of the writer calls, in order.
Written == [k \in 1..Len(writes) |-> writes[k].arg]
StreamWriting ==
    batch_mode = "stream" /\ args.writer \in {"StreamWriter", "BatchWriter"}
\* The read item a value of the stream execution came from.
ItemOf(v) == v.items[1][1]

\* C13: in stream execution the writer is called with the values the filter
\* chain yields, in the order they are yielded and hence item after item in
\* read order; every value the chain has yielded for an item is written
\* before the next item is read and given to the chain, and an item for which
\* the chain yields nothing causes no call of the writer.
C13_StreamWritesYieldsInOrder ==
    /\ [](StreamWriting =>
              /\ Len(writes) <= Len(yields) /\ Len(yields) <= Len(writes) + 1
              /\ Written = SubSeq(yields, 1, Len(writes))
              /\ \A k \in 1..Len(writes) :
                    writes[k].op = IF args.writer = "StreamWriter"
                                   THEN "write_stream" ELSE "write_batch"
              /\ \A k \in 1..(Len(yields) - 1) :
                    ItemOf(yields[k]) <= ItemOf(yields[k + 1]))
    /\ [](StreamWriting /\ epc \in {"s_read", "s_item", "s_pull"} =>
              Written = yields)
    /\ [][StreamWriting /\ epc = "s_item" /\ epc' = "s_pull" =>
              Written = yields /\ yields' = yields]_vars

C13_Witness ==
    /\ epc = "done" /\ ~stopped /\ raised = "no"
    /\ batch_mode = "stream" /\ args.writer = "StreamWriter"
    /\ args.filters_ = 1 /\ nread = 2 /\ count = 2
    /\ Written = <<Value(<<1, 1>>), Value(<<1, 2>>)>>
    /\ yields = Written

RECURSIVE Flatten(_)
\* The records of the values a chain has yielded, lists spliced in.
Flatten(ys) == IF ys = <<>> THEN <<>> ELSE Head(ys).items \o Flatten(Tail(ys))

\* C14: in batch execution no filter is invoked while the reader is being
\* drained and the writer is not called before the filter chain is
\* exhausted; a run that is neither stopped nor raises ends with exactly one
\* write_batch call holding all surviving records in order for a BatchWriter,
\* and with one write_stream call per surviving record in order for a
\* StreamWriter.
C14_BatchPhases ==
    /\ [](batch_mode = "batch" /\ epc \in {"b_read", "b_item"} =>
              yields = <<>> /\ npull = 0 /\ writes = <<>>)
    /\ [](batch_mode = "batch" /\
          epc \in {"b_filter", "b_pull", "b_filtered", "b_filter_end"} =>
              writes = <<>>)
    /\ [][batch_mode = "batch" /\ writes' # writes =>
              /\ epc \in {"b_filter_end", "b_write_stream"}
              /\ yields' = yields /\ nread' = nread
              /\ data_list' = Flatten(yields)]_vars
    /\ [](batch_mode = "batch" /\ epc = "done" /\ ~stopped /\ raised = "no" =>
              /\ args.writer = "BatchWriter" =>
                    writes = <<[op |-> "write_batch",
                                arg |-> ListValue(Flatten(yields))]>>
              /\ args.writer = "StreamWriter" =>
                    writes = [k \in 1..Len(Flatten(yields)) |->
                                 [op |-> "write_stream",
                                  arg |-> Value(Flatten(yields)[k])]])

C14_Witness ==
    /\ epc = "done" /\ ~stopped /\ raised = "no"
    /\ batch_mode = "batch" /\ args.writer = "BatchWriter"
    /\ args.filters_ = 2 /\ nread = 2
    /\ yields = <<ListValue(<<<<1>>, <<2>>>>), Value(<<2>>)>>
    /\ writes = <<[op |-> "write_batch",
                   arg |-> ListValue(<<<<1>>, <<2>>, <<2>>>>)]>>

\* Between taking an item from the reader and counting it.
ItemTaken == epc \in {"s_item", "b_item"} /\ item # None

\* C15: during execute() session.count never decreases, only the executor
\* changes it, and outside the moment between taking an item and counting it
\* it equals its initial value plus the number of non-None items taken from
\* the reader so far, whatever the filters yield.
C15_CountEqualsTaken ==
    /\ [][count' >= count]_vars
    /\ [](~ItemTaken => count = args.count + nread)

\* C15, amended: session.count never decreases and changes only by the
\* executor adding one for a non-None item it took from the reader while the
\* stop flag was not set; it equals its initial value plus the number of
\* such items, which is the number of non-None items taken except for an
\* item taken after the stop flag was set, on which the execution returns
\* without counting it.
C15_CountEqualsAccepted ==
    /\ [][count' >= count]_vars
    /\ [][count' # count =>
              /\ count' = count + 1
              /\ ItemTaken /\ ~stopped
              /\ nread' = nread /\ yields' = yields /\ writes' = writes]_vars
    /\ [][yields' # yields \/ writes' # writes => count' = count]_vars
    /\ [](~ItemTaken /\ ~stopped => count = args.count + nread)
    /\ [](~ItemTaken /\ count # args.count + nread =>
              stopped /\ count = args.count + nread - 1
              /\ epc \in {"return", "finalize", "done"})
    /\ [](ItemTaken => count = args.count + nread - 1)

C15_Witness ==
    /\ epc = "return" /\ stopped /\ args.count = 1
    /\ nread = 2 /\ count = 2 /\ item = <<2>>
    /\ batch_mode = "stream" /\ Len(yields) = 2

\* The counts of the items read so far that are multiples of the update
\* interval.
Multiple(m) == m.n % args.update_interval = 0
ProgressDue ==
    SelectSeq([k \in 1..(count - args.count) |->
                  [msg |-> "processed", n |-> args.count + k]], Multiple)

\* C16: in stream execution, when the next item is about to be read, exactly
\* one progress message has been logged for each item read whose running
\* count is a multiple of the update interval and none for any other item,
\* whatever number of values the filter chain yielded for the item.
C16_OneMessagePerDueItem ==
    batch_mode = "stream" /\ epc = "s_read" /\ ~stopped => logged = ProgressDue

\* ------------------------------------------------------ claims on split_args
\* What the token at position p resolves to, the positions of the tokens that
\* resolve to a handler, the k-th of them, and the group the k-th handler
\* collects: its canonical name and the tokens up to the next handler.
Resolved(p) == resolve_handler(tokens[p], handlers, partial)
Starts == {p \in 1..Len(tokens) : Resolved(p).found}
StartOf(k) == CHOOSE p \in Starts : Cardinality({q \in Starts : q < p}) = k - 1
EndOf(k) ==
    IF k = Cardinality(Starts) THEN Len(tokens) ELSE StartOf(k + 1) - 1
GroupOf(k) ==
    <<Resolved(StartOf(k)).name>> \o SubSeq(tokens, StartOf(k) + 1, EndOf(k))
\* The tokens before the first one that resolves to a handler.
Leading ==
    SubSeq(tokens, 1, IF Starts = {} THEN Len(tokens) ELSE StartOf(1) - 1)
Get(d, key) == d[CHOOSE e \in 1..Len(d) : d[e].key = key].value
RECURSIVE Concat(_)
Concat(d) == IF d = <<>> THEN <<>> ELSE Head(d).value \o Concat(Tail(d))
Canonical(n) ==
    [p \in 1..n |-> IF Resolved(p).found THEN Resolved(p).name ELSE tokens[p]]

\* C17: split_args returns the group of the k-th recognized handler name,
\* k = 0, 1, ... from the left, under the key str(k), and the leading global
\* tokens under the key "".
C17_KeyedFromZero ==
    spc = "returned" =>
        /\ \A k \in 1..Cardinality(Starts) :
              HasKey(groups, str(k - 1)) /\ Get(groups, str(k - 1)) = GroupOf(k)
        /\ Starts # {} => HasKey(groups, "") /\ Get(groups, "") = Leading

\* C18: for every token list, also one without any handler name, the tokens
\* before the first recognized name are returned under the key "" and every
\* group under another key begins with a known handler name.
C18_GlobalsUnderEmptyKey ==
    spc = "returned" =>
        /\ Leading # <<>> => HasKey(groups, "") /\ Get(groups, "") = Leading
        /\ \A e \in 1..Len(groups) :
              groups[e].key # "" =>
                  /\ groups[e].value # <<>>
                  /\ Head(groups[e].value) \in handlers

\* C19: split_args loses and reorders no token: the groups collected so far,
\* in insertion order and followed by the open group, are the tokens taken so
\* far with every token that resolves to a handler replaced by the canonical
\* name; the groups returned are cut exactly at the tokens that resolve to a
\* handler, under distinct keys.
C19_NoTokenLost ==
    /\ spc # "off" =>
          Concat(groups) \o (IF spc = "for" THEN last_args ELSE <<>>)
              = Canonical(ntaken)
    /\ spc = "returned" =>
          /\ ntaken = Len(tokens)
          /\ [e \in 1..Len(groups) |-> groups[e].value]
                = IF Starts = {}
                  THEN IF tokens = <<>> THEN <<>> ELSE <<tokens>>
                  ELSE <<Leading>> \o [k \in 1..Cardinality(Starts) |-> GroupOf(k)]
          /\ \A e, f \in 1..Len(groups) :
                groups[e].key = groups[f].key => e = f

C19_Witness ==
    /\ spc = "returned" /\ partial /\ handlers = {<<"r", "a">>, <<"r">>}
    /\ tokens = <<<<"-">>, <<"r", "a">>, <<"r">>>>
    /\ Len(groups) = 3
    /\ groups[1].value = <<<<"-">>>>
    /\ groups[2].value = <<<<"r", "a">>>>
    /\ groups[3].value = <<<<"r">>>>

\* The names that have c as a prefix.
Completions(c) ==
    {h \in handlers : \E n \in 0..Len(h) : SubSeq(h, 1, n) = c}

\* C20: resolve_handler returns the candidate whenever it is one of the
\* names, also when it is a proper prefix of other names; otherwise, with
\* partial matching enabled and exactly one name having the candidate as a
\* prefix, that name; and None in every other case.
C20_ExactThenUniquePrefix ==
    spc # "off" /\ ntaken >= 1 =>
        LET c == tokens[ntaken]
        IN  /\ c \in handlers => handler = Found(c)
            /\ c \notin handlers /\ partial /\ Cardinality(Completions(c)) = 1
                  => handler.found /\ Completions(c) = {handler.name}
            /\ c \notin handlers
               /\ (~partial \/ Cardinality(Completions(c)) # 1)
                  => handler = NotFound

C20_Witness ==
    /\ spc = "for" /\ ntaken = 2 /\ partial
    /\ handlers = Names
    /\ tokens[1] = <<>> /\ tokens[2] = <<"r">>
    /\ handler = Found(<<"r">>)
    /\ Cardinality(Completions(<<"r">>)) = 3

\* ------------------------------------------------------------------ C21
IsHandlerGroup(g) == g.key # ""

\* The groups of args that name a plugin, in order
HandlerGroups == SelectSeq(arg_groups, IsHandlerGroup)

\* What parsing the options of group g into a copy of its prototype gives
ParsedGroup(g) == parse_args(heap0[valid_plugins[g.value[1]]], Tail(g.value))

NotToBeSkipped(o) == ~(o.skippable /\ o.skip)

\* C21: what args_to_objects returns is the plugins of the groups that name
\* one, in the order of the groups and each configured from its own
\* options, without exactly the skippable ones whose skip flag was set; and
\* when unknown arguments are not allowed, a group with a token its plugin
\* does not consume keeps the call from returning, skipped or not.
C21_SkippedRemovedAfterParsing ==
    LET parsed == [k \in 1..Len(HandlerGroups) |->
                      ParsedGroup(HandlerGroups[k])]
        configured == [k \in 1..Len(parsed) |-> parsed[k].object]
    IN  /\ opc = "returned" =>
               [k \in 1..Len(objects) |-> heap[objects[k]]]
                   = SelectSeq(configured, NotToBeSkipped)
        /\ (/\ ~allow_unknown_args
            /\ \E k \in 1..Len(parsed) : Len(parsed[k].unknown) > 0)
           => opc \notin {"while", "returned"}

\* A call has returned without a plugin that was skipped and whose group
\* held a token it does not know.
C21_Witness ==
    /\ opc = "returned"
    /\ Len(objects) = 1
    /\ \E k \in 1..Len(HandlerGroups) :
          LET p == ParsedGroup(HandlerGroups[k])
          IN  ~NotToBeSkipped(p.object) /\ Len(p.unknown) > 0

\* ------------------------------------------------------------------ C22
\* C22: no prototype of valid_plugins is ever changed; the plugins of the
\* result are objects of their own, none a prototype and no two the same;
\* and each has the configuration its own group gave it, so two groups
\* naming the same plugin do not share settings.
C22_PrototypesUntouched ==
    /\ \A p \in Prototypes : heap[p] = heap0[p]
    /\ \A k \in 1..Len(objects) : objects[k] \notin Prototypes
    /\ \A k, l \in 1..Len(objects) : k # l => objects[k] # objects[l]
    /\ opc \in {"for", "unknown_args", "no_global"} =>
          \A k \in 1..Len(objects) :
              heap[objects[k]] = ParsedGroup(HandlerGroups[k]).object

\* Two groups named the same plugin with different options, and the call
\* has returned two plugins that differ.
C22_Witness ==
    /\ opc = "returned"
    /\ Len(objects) = 2
    /\ HandlerGroups[1].value[1] = HandlerGroups[2].value[1]
    /\ heap[objects[1]] # heap[objects[2]]
    /\ heap[objects[1]].verbose

\* ------------------------------------------------------------------ C23
\* The calls of _register_plugin that the last call of plugins() made for
\* a plugin that is not excluded
Registrations ==
    {k \in 1..Len(rcall.log) : rcall.log[k].outcome # "False"}

PrimaryName(c) == ClassInfo[c].name

AllNames(c) == {ClassInfo[c].name} \cup Elements(ClassInfo[c].aliases)

\* C23: with uniqueness enforced, registering a plugin whose primary name
\* is registered to a different class fails with the duplicate-name error
\* (which ends plugins() when the plugin came from an explicit entry
\* point), and registering a class whose names are all registered to it
\* already, by whatever group, succeeds and leaves the mapping of names to
\* classes as it was.
C23_DuplicatePrimaryRejected ==
    enforce_uniqueness =>
        \A k \in Registrations :
            LET call == rcall.log[k]
                bound == call.before[PrimaryName(call.class)]
            IN  /\ (bound # Unbound /\ bound # call.class) =>
                       /\ call.outcome = "Duplicate"
                       /\ call.path = "explicit" => rcall.raised = "Duplicate"
                /\ (\A n \in AllNames(call.class) :
                        call.before[n] = call.class) =>
                       /\ call.outcome = "True"
                       /\ call.after = call.before

\* A call of plugins() for the first group has registered a class again
\* that the second group had registered, and was then ended by a plugin
\* with the same primary name and another class.
C23_Witness ==
    /\ enforce_uniqueness
    /\ rcall.group = "g1"
    /\ rcall.raised = "Duplicate"
    /\ stored["g2"].present
    /\ \E k, l \in Registrations :
          /\ rcall.log[k].outcome = "True"
          /\ rcall.log[k].before[PrimaryName(rcall.log[k].class)]
                 = rcall.log[k].class
          /\ rcall.log[l].outcome = "Duplicate"
          /\ rcall.log[l].before[PrimaryName(rcall.log[l].class)]
                 \notin {Unbound, rcall.log[l].class}

\* ------------------------------------------------------------------ C24
\* C24: with uniqueness enforced, no registration changes the class a name
\* is bound to, and registering a plugin one of whose names (primary or
\* alias) is bound to another class fails with the duplicate-name error
\* and binds nothing.
C24_AnyBoundNameRejected ==
    enforce_uniqueness =>
        \A k \in 1..Len(rcall.log) :
            LET call == rcall.log[k]
            IN  /\ \A n \in RegNames :
                       call.before[n] # Unbound =>
                           call.after[n] = call.before[n]
                /\ (/\ k \in Registrations
                    /\ \E n \in AllNames(call.class) :
                           call.before[n] \notin {Unbound, call.class})
                   => (call.outcome = "Duplicate"
                       /\ call.after = call.before)

\* ------------------------------------------------------------------ C25
\* The value of the environment variable with DEFAULT, its last entry,
\* replaced by the default modules
EnvironmentModules ==
    IF environ[Len(environ)] = DEFAULT
    THEN SubSeq(environ, 1, Len(environ) - 1) \o default_modules
    ELSE environ

\* C25: a call of plugins() that runs the discovery to its end scans the
\* fallback modules exactly when the entry points of the group gave no
\* plugin, or custom modules are set, or the environment variable named is
\* set; it scans the custom modules if there are any, else the modules of
\* the environment variable, else the default modules; and what it returns
\* is the plugins of the entry points with those of the fallback modules
\* put over them.
C25_FallbackScan ==
    (rcall.ran /\ rcall.raised = "no" /\ rpc = "idle") =>
        LET custom == Len(custom_modules) > 0
            env == env_modules /\ Len(environ) > 0
        IN  /\ rcall.scanned =
                   IF IsEmptyDict(rcall.from_entry) \/ custom \/ env
                   THEN IF custom THEN custom_modules
                        ELSE IF env THEN EnvironmentModules
                             ELSE default_modules
                   ELSE <<>>
            /\ \A n \in RegNames :
                   rcall.returned[n] =
                       IF rcall.from_modules[n] # Unbound
                       THEN rcall.from_modules[n] ELSE rcall.from_entry[n]

\* The entry points gave a plugin, custom modules are set and so is the
\* environment variable, and the custom modules have added a plugin.
C25_Witness ==
    /\ rcall.ran /\ rcall.raised = "no" /\ rpc = "idle"
    /\ ~IsEmptyDict(rcall.from_entry)
    /\ Len(custom_modules) > 0
    /\ env_modules /\ Len(environ) > 0
    /\ rcall.scanned = custom_modules
    /\ rcall.returned # rcall.from_entry
    /\ rcall.returned # rcall.from_modules

\* ------------------------------------------------------------------ C26
\* C26: a class in an excluded module is under none of its names in what
\* plugins() returns or has stored, and none of its aliases is reported by
\* is_alias.
C26_ExcludedNowhere ==
    \A c \in PluginClasses :
        (\E k \in 1..Len(excluded_modules) :
             StartsWith(ClassInfo[c].module, excluded_modules[k]))
        => /\ \A n \in RegNames : rcall.returned[n] # c
           /\ \A g \in Groups, n \in RegNames : stored[g].plugins[n] # c
           /\ \A n \in Elements(ClassInfo[c].aliases) : ~is_alias(n)

\* ------------------------------------------------------------------ C27
\* C27 as stated: between two setter calls _register runs at most once for
\* a group.
C27_DiscoveryOncePerGroup ==
    \A g \in Groups : nregister[g] <= 1

\* C27: while a mapping is stored for a group and no setter is called, the
\* mapping stays as it is and a call of plugins() for the group returns it
\* and registers nothing; every setter call leaves no mapping stored for
\* any group, and a call for a group without a stored mapping runs the
\* discovery.
C27_StoredUntilReconfigured ==
    [][/\ \A g \in Groups :
              (stored[g].present /\ nchanges' = nchanges) =>
                  /\ stored'[g] = stored[g]
                  /\ (rcall'.group = g /\ rcall' # rcall) =>
                         /\ ~rcall'.ran
                         /\ rcall'.log = <<>>
                         /\ rcall'.returned = stored[g].plugins
                         /\ all_plugins' = all_plugins
       /\ nchanges' # nchanges => \A g \in Groups : ~stored'[g].present
       /\ \A g \in Groups :
              (~stored[g].present /\ rcall'.group = g /\ rcall' # rcall)
                  => rcall'.ran]_vars

\* After a setter call the plugins of a group have been discovered again
\* and a repeated call has returned them.
C27_Witness ==
    /\ nchanges > 0
    /\ rcall.group = "g1" /\ ~rcall.ran
    /\ stored["g1"].present /\ ~IsEmptyDict(stored["g1"].plugins)
    /\ nregister["g1"] = 1

\* ------------------------------------------------------------------ C28
\* The classes a class lister produces for the superclass: the classes of
\* the modules it names
Produces(l) ==
    IF Resolves(l)
    THEN UNION {IF Imports(ListedModules(l)[k])
                THEN {c \in Elements(SubClasses(ListedModules(l)[k])) :
                         Instantiate(c) # "Exception"}
                ELSE {} : k \in 1..Len(ListedModules(l))}
    ELSE {}

\* The excluded class listers: those the environment variable names when
\* it is set, else those of excluded_class_listers
ExcludedListers ==
    IF Len(environ_excluded) > 0 THEN Elements(environ_excluded)
    ELSE Elements(excluded_class_listers)

\* C28: what plugins() returns holds no class that an excluded class
\* lister produces for the superclass, whichever other listers produce it
\* too.
C28_ExcludedListerClassesRemoved ==
    ccall.called =>
        \A l \in ExcludedListers : Produces(l) \cap ccall.result = {}

\* ------------------------------------------------------------------ C29
\* What a class lister adds to the classes: nothing when it does not
\* resolve or is one of excluded_class_listers
Contributes(l) ==
    IF l \in Elements(excluded_class_listers) THEN {} ELSE Produces(l)

ContributedBy(class_listers) ==
    UNION {Contributes(class_listers[k]) : k \in 1..Len(class_listers)}

\* The classes plugins() is to return: those of the class listers of the
\* entry points or, when these give none, of the default class listers,
\* less those of the class listers the environment variable excludes and
\* those that cannot be instantiated
ClassesExpected ==
    LET used == IF ContributedBy(lister_entry_points) = {}
                THEN default_class_listers ELSE lister_entry_points
        removed == IF Len(environ_excluded) > 0
                   THEN ContributedBy(environ_excluded) ELSE {}
    IN  {c \in ContributedBy(used) \ removed : Instantiate(c) = "ok"}

\* C29: a class lister that does not resolve, a module that cannot be
\* imported and a class that cannot be instantiated are passed over and
\* the classes of the other listers and modules are returned; plugins()
\* raises exactly when there is no class to return and fail_if_empty is
\* true, and returns nothing when there is none and fail_if_empty is false.
C29_FailuresSkipped ==
    ccall.called =>
        /\ ccall.result = ClassesExpected
        /\ ccall.raised <=> (ccall.fail_if_empty /\ ClassesExpected = {})

\* The default class listers are one that does not resolve and one that
\* names a module that cannot be imported and a class that cannot be
\* instantiated, and plugins() has returned the class that is left.
C29_Witness ==
    /\ ccall.called /\ ~ccall.raised
    /\ default_class_listers = <<"l3", "l1">>
    /\ lister_entry_points = <<>>
    /\ ccall.result = {"K1"}

\* ------------------------------------------------------------------ C30
\* The pair of plugins k and k + 1 is compatible: a type set holds the
\* wildcard, or a generated type is an accepted type or a subtype of one.
PairCompatible(k) ==
    LET generated == pipeline[k].generates
        accepted == pipeline[k + 1].accepts
    IN  /\ pipeline[k].producer
        /\ pipeline[k + 1].consumer
        /\ \/ AnyData \in generated
           \/ AnyData \in accepted
           \/ \E g \in generated, a \in accepted :
                  g = a \/ (g = "Sub" /\ a = "Base")

\* C30: check_compatibility returns exactly when every pair of adjacent
\* plugins is compatible and raises when some pair is not, whatever the
\* other pairs are.
C30_EveryPairChecked ==
    cpc \in {"returned", "raised"} =>
        (cpc = "returned" <=>
             \A k \in 1..(Len(pipeline) - 1) : PairCompatible(k))

\* The pairs of adjacent plugins of which the first is no OutputProducer or
\* the second is no InputConsumer, and the index the exception has to name
LacksCapability(k) ==
    ~pipeline[k].producer \/ ~pipeline[k + 1].consumer
NamesOffender ==
    \/ /\ cerror.kind = "OutputProducer"
       /\ cerror.index + 1 \in 1..Len(pipeline)
       /\ ~pipeline[cerror.index + 1].producer
    \/ /\ cerror.kind = "InputConsumer"
       /\ cerror.index + 1 \in 1..Len(pipeline)
       /\ ~pipeline[cerror.index + 1].consumer

\* C31: check_compatibility raises, naming the index of the plugin, for
\* every pipeline in which the first plugin of some adjacent pair is no
\* OutputProducer or the second no InputConsumer, whatever the classes of
\* the pairs before it; a pipeline of no or one plugin passes.
C31_MissingCapabilityRaises ==
    cpc \in {"returned", "raised"} =>
        /\ Len(pipeline) <= 1 => cpc = "returned"
        /\ (\E k \in 1..(Len(pipeline) - 1) : LacksCapability(k)) =>
               (cpc = "raised" /\ NamesOffender)

\* The values the pipeline with the MultiFilter has yielded are the first
\* of those the pipeline of the filters themselves yielded.
YieldsSoFar ==
    /\ Len(pulled["outer"]) <= Len(pulled["flat"])
    /\ pulled["outer"] =
           SubSeq(pulled["flat"], 1, Len(pulled["outer"]))

\* C32: the pipeline with MultiFilter(F) at some place yields the values the
\* pipeline with the filters of F at that place yields, in the same order,
\* none lost and none twice.
C32_MultiFilterTransparent ==
    /\ phase \in {"nested", "done"} => YieldsSoFar
    /\ phase = "done" => pulled["outer"] = pulled["flat"]

\* Both pipelines are exhausted after three values or more, two of the
\* filters are in the MultiFilter and one is not.
C32_Witness ==
    /\ phase = "done"
    /\ Len(pulled["outer"]) >= 3
    /\ Len(its["inner"].chain) = 2
    /\ Len(its["outer"].chain) = 2

\* The ratios and names initialize() accepts by its own checks, and the
\* number of calls of next() after which the assignment repeats
RatiosAndNamesFit ==
    Len(split_ratios) = Len(split_names) /\ sum(split_ratios) = 100
Period == 100 \div gcd(split_ratios)
Reduced(k) == split_ratios[k] \div gcd(split_ratios)

\* C33: for ratios of one or more entries that sum to 100 and as many names
\* initialize() succeeds, and without a split group the first Period calls
\* of next() return the name of split k Reduced(k) times, the counter is 0
\* after every Period calls and the assignment repeats with that period.
C33_ProportionsPerPeriod ==
    (RatiosAndNamesFit /\ splitter # "new") =>
        /\ splitter = "initialized"
        /\ ~split_group =>
              /\ \A n \in 1..Len(calls) :
                     n > Period => calls[n].index = calls[n - Period].index
              /\ Len(calls) >= Period =>
                     \A k \in 1..Len(split_ratios) :
                         Cardinality({n \in 1..Period : calls[n].index = k})
                             = Reduced(k)
              /\ Len(calls) % Period = 0 => counter = 0

NonNegative == \A k \in 1..Len(split_ratios) : split_ratios[k] >= 0

\* C34: after initialize() with ratios that are not negative, whatever
\* calls of next() and reset() follow, the last entry of the schedule is
\* 100 / gcd(ratios), the counter is at least 0 and less than that entry,
\* and every call of next() returned one of the split names.
C34_CounterWithinSchedule ==
    (splitter = "initialized" /\ NonNegative) =>
        /\ schedule[Len(schedule)] = Period
        /\ 0 <= counter /\ counter < schedule[Len(schedule)]
        /\ \A n \in 1..Len(calls) :
               \E k \in 1..Len(split_names) : calls[n].split = split_names[k]

\* next() was called after a reset() and the counter has gone round.
C34_Witness ==
    /\ splitter = "initialized" /\ NonNegative
    /\ nresets = 1
    /\ Len(calls) >= 3
    /\ \E n \in 1..Len(calls) : calls[n].before > 0 /\ calls[n].after = 0

\* Whether call n is for a group that an earlier call since the last
\* reset() was for
SeenBefore(n) ==
    /\ calls[n].item \in Keys
    /\ \E m \in 1..(n - 1) : calls[m].item = calls[n].item

\* C35: with a split group, the items of one group get the same split from
\* next() until the splitter is reset; a call for a group that has its
\* split leaves the counter alone, and a call for a new group or for an
\* item without group returns the split whose interval holds the counter,
\* moves the counter on modulo the schedule's last entry and records the
\* split for the group.
C35_GroupsKeepTheirSplit ==
    (splitter = "initialized" /\ split_group) =>
        \A n \in 1..Len(calls) :
            /\ \A m \in 1..(n - 1) :
                   (calls[m].item \in Keys /\ calls[m].item = calls[n].item)
                       => calls[m].split = calls[n].split
            /\ SeenBefore(n) => calls[n].after = calls[n].before
            /\ ~SeenBefore(n) =>
                   /\ calls[n].index \in 1..Len(split_names)
                   /\ calls[n].split = split_names[calls[n].index]
                   /\ schedule[calls[n].index] <= calls[n].before
                   /\ calls[n].before < schedule[calls[n].index + 1]
                   /\ calls[n].after =
                          (calls[n].before + 1) % schedule[Len(schedule)]
            /\ calls[n].item \in Keys =>
                   /\ calls[n].item \in DOMAIN split_groups
                   /\ split_groups[calls[n].item] = calls[n].split

\* A group got its split again after the counter had moved on, and another
\* group got another split.
C35_Witness ==
    /\ splitter = "initialized" /\ split_group
    /\ \E m, n \in 1..Len(calls) :
           /\ m + 1 < n
           /\ calls[m].item \in Keys /\ calls[m].item = calls[n].item
           /\ calls[n].before # calls[m].before
           /\ \E j \in (m + 1)..(n - 1) :
                  calls[j].item \in Keys /\ calls[j].split # calls[m].split

\* stats()[s], with 0 for a name that is not a key of the dict
StatOf(s) == IF s \in DOMAIN stats THEN stats[s] ELSE 0

\* C36: for every split name s, stats()[s] is the number of calls of next()
\* since the last initialize() or reset() that returned s.
C36_StatsCountReturns ==
    splitter = "initialized" =>
        \A k \in 1..Len(split_names) :
            StatOf(split_names[k]) =
                Cardinality({n \in 1..Len(calls) :
                                calls[n].split = split_names[k]})

\* C37: generate_entry_points returns for every mapping from group to
\* plugin list, and what it generates has the groups whose list is not
\* empty and no other, each with one entry per plugin in the order of the
\* list.
C37_EmptyGroupsSuppressed ==
    gpc \in {"returned", "KeyError"} =>
        /\ gpc = "returned"
        /\ DOMAIN gen_result =
               {g \in DOMAIN given_lists : Len(given_lists[g]) > 0}
        /\ \A g \in DOMAIN gen_result :
               gen_result[g] = to_entry_points(given_lists[g])

\* The filters that hold buffered output, and the first and the last of
\* them in the chain
Buffered == {k \in 1..Len(filters) : has_output(k)}
NearestStart(S) == CHOOSE j \in S : \A m \in S : j <= m
NearestEnd(S) == CHOOSE j \in S : \A m \in S : m <= j

\* A pass over the filters begins, and it is not the first one.
PassBegins == pc = "while" /\ pc' = "for" /\ ~first

\* C38 as stated: every pass after the first starts at the filter nearest
\* the start of the chain among those that hold buffered output, and at the
\* head of the chain when none does.
C38_StartsAtEarliestPending ==
    [][PassBegins =>
          i' = IF Buffered = {} THEN 1 ELSE NearestStart(Buffered)]_vars

\* C38, amended: every pass after the first starts at the pending filter
\* appended last, which is the filter nearest the end of the chain among
\* those that hold buffered output, and at the head of the chain when no
\* filter is pending.
C38_StartsAtLatestPending ==
    [][PassBegins =>
          /\ i' = IF Buffered = {} THEN 1 ELSE NearestEnd(Buffered)
          /\ pending_filters # <<>> =>
                 i' = pending_filters[Len(pending_filters)]
          /\ pending_filters = <<>> <=> Buffered = {}]_vars

\* A pass has begun at the second of two pending filters.
C38_Witness ==
    /\ pc = "for" /\ output = None /\ ~first
    /\ Len(pending_filters) = 2
    /\ i = pending_filters[2] /\ i > pending_filters[1]
    /\ has_output(pending_filters[1]) /\ has_output(i)

\* C39: between two pulls pending_filters holds the streaming filters whose
\* buffer is not empty and no other, each once and in the order of the
\* chain; and no streaming filter is given an item while its buffer holds
\* a value, so no buffered value is thrown away.
C39_PendingAreTheBuffered ==
    /\ pc = "idle" =>
          /\ {pending_filters[k] : k \in 1..Len(pending_filters)} = Buffered
          /\ \A k \in Buffered : IsStream(k)
          /\ \A k \in 1..(Len(pending_filters) - 1) :
                 pending_filters[k] < pending_filters[k + 1]
    /\ (pc = "for" /\ i <= Len(filters) /\ output # None) =>
          stream_output[i] = <<>>

\* Two filters are pending between two pulls.
C39_Witness ==
    /\ pc = "idle" /\ result = "value"
    /\ Len(pending_filters) = 2
    /\ Len(stream_output[pending_filters[1]]) > 0

\* The classes the current configuration leaves out, and the classes a
\* name of class c was bound to when call k found it a duplicate
LeftOut(c) == is_excluded(c)
BoundBefore(k) ==
    {rcall.log[k].before[n] : n \in Elements(get_all_names(rcall.log[k].class))}
        \ {Unbound, rcall.log[k].class}

\* C40: after any module lists were set and plugins() was called, a class
\* that was registered before its module was excluded makes no other class
\* that has one of its names a duplicate, and none of its aliases is
\* reported by is_alias unless a class that is not excluded has it.
C40_OnlyCurrentConfiguration ==
    /\ \A k \in 1..Len(rcall.log) :
           rcall.log[k].outcome = "Duplicate" =>
               \A c \in BoundBefore(k) : ~LeftOut(c)
    /\ \A c \in PluginClasses :
           LeftOut(c) =>
               \A n \in Elements(ClassInfo[c].aliases) :
                   is_alias(n) =>
                       \E b \in PluginClasses :
                           /\ ~LeftOut(b)
                           /\ n \in Elements(ClassInfo[b].aliases)
                           /\ \E m \in RegNames : all_plugins[m] = b

====
